---- MODULE Spec2Model ----
(***************************************************************************)
(* Journal Scanner proxy: the settings store (settings.json on disk, with  *)
(* masking for display and merge on update) and the API gateway handlers   *)
(* of the three server variants found in src/server.js:                    *)
(*   v1  - credentials supplied by the request (lines 1-100)               *)
(*   env - credentials taken from process.env (lines 592-709)              *)
(*   v2  - credentials stored server-side in settings.json (lines 711-944) *)
(* and the browser client served by getHTML (v1: lines 105-590, v2: lines  *)
(* 949-1496): the App, the ScanView workflow and the entry log.            *)
(*                                                                         *)
(* JavaScript strings are sequences of one-character strings.  The bullet  *)
(* U+2022 of the source is written "*", the em dash U+2014 is written "~". *)
(* The JavaScript values undefined                                         *)
(* and null are the one-element sequences Undefined and Null, which are    *)
(* not strings of the model (their element is not a single character).     *)
(***************************************************************************)
EXTENDS Integers, Sequences, FiniteSets, TLC

VARIABLES
    file,         \* content of SETTINGS_FILE on disk
    last,         \* the last completed HTTP exchange (request, response, and the file before it)
    pending,      \* upstream calls awaiting the provider's answer
    env,          \* process.env of the env variant
    appSettings,  \* settings state of the v1 client App
    mk,           \* one application of maskKey (pure-function specification)
    client,       \* which getHTML page the browser runs: "v1" or "v2"
    app,          \* state of the App component: activeTab, isConfigured, loadingConfig
    scan,         \* state of the mounted ScanView: status and the draft
    entries,      \* the App's entries state (the entry log), newest first
    tasks,        \* asynchronous continuations of the client awaiting an event
    step,         \* the last client step: what happened and what it received
    tt,           \* one derivation of the entry title (pure-function specification)
    fx            \* one application of search, of the page body or of the tags
                  \* (pure-function specification)

scanVars == <<client, app, scan, entries, tasks, step>>

vars == <<file, last, pending, env, appSettings, mk, scanVars, tt, fx>>

----------------------------------------------------------------------------
(* Bounds *)

MaxKeyLen == 9      \* longest secret drawn
MaxPending == 1     \* upstream calls in flight at once
MaxLineLen == 62    \* longest first line of a transcription drawn for the title
MaxScans == 1       \* images selected in one behaviour of the client
MaxEdits == 1       \* edits of a draft field in one behaviour of the client
MaxSegments == 3    \* pieces joined by a blank line in a drawn text
MaxTags == 4        \* pieces joined by commas in a drawn tags field
MaxLogLen == 2      \* entries in a log drawn for the search
MaxSearchLen == 2   \* characters in a drawn search text

----------------------------------------------------------------------------
(* JavaScript values and string operations *)

Undefined == <<"undefined">>
Null == <<"null">>
Empty == <<>>
Bullet == "*"

Min(a, b) == IF a < b THEN a ELSE b
Max(a, b) == IF a > b THEN a ELSE b

\* truthiness of a string-or-undefined value
Truthy(v) == v # Undefined /\ v # Null /\ v # Empty

\* a || b
JsOr(a, b) == IF Truthy(a) THEN a ELSE b

\* a && b
JsAnd(a, b) == IF Truthy(a) THEN b ELSE a

\* s.includes(sub)
Includes(s, sub) ==
    \E i \in 1..(Len(s) - Len(sub) + 1) : SubSeq(s, i, i + Len(sub) - 1) = sub

\* s.startsWith(p)
StartsWith(s, p) == Len(p) <= Len(s) /\ SubSeq(s, 1, Len(p)) = p

\* s.slice(0, n)
SliceHead(s, n) == SubSeq(s, 1, Min(n, Len(s)))

\* s.slice(-n)
SliceTail(s, n) == SubSeq(s, Max(1, Len(s) - n + 1), Len(s))

\* the marker maskKey inserts (eight bullets) and the marker PUT tests for (four)
MaskMarker == <<Bullet, Bullet, Bullet, Bullet, Bullet, Bullet, Bullet, Bullet>>
MaskTest == <<Bullet, Bullet, Bullet, Bullet>>

NtnPrefix == <<"n", "t", "n", "_">>
AIzaPrefix == <<"A", "I", "z", "a">>

maskKey_KeepsFive(key, prefix) ==
    IF ~Truthy(key) THEN Empty
    ELSE LET pre == IF Truthy(prefix) /\ StartsWith(key, prefix) THEN prefix ELSE SliceHead(key, 5)
             suf == SliceTail(key, 4)
         IN  pre \o MaskMarker \o suf

maskKey(key, prefix) ==
    IF ~Truthy(key) THEN Empty
    ELSE LET pre == IF Truthy(prefix) /\ StartsWith(key, prefix) THEN prefix ELSE SliceHead(key, 4)
             suf == SliceTail(key, 4)
         IN  pre \o MaskMarker \o suf

----------------------------------------------------------------------------
(* Settings objects and the settings file *)

Settings(t, d, g) == [notionToken |-> t, notionDatabaseId |-> d, googleVisionKey |-> g]

EmptySettings == Settings(Empty, Empty, Empty)
NoFields == Settings(Undefined, Undefined, Undefined)     \* the object {}
NullSettings == Settings(Null, Null, Null)                \* stands for the value null

\* File contents: no file; a file that cannot be read; text that is not JSON
\* (also an empty or partly written file); the JSON text null; a JSON object.
File(kind, obj) == [kind |-> kind, obj |-> obj]
FileKinds == {"absent", "unreadable", "badjson", "null", "object"}

\* loadSettings: an exception anywhere in the try block gives the default object;
\* otherwise whatever JSON.parse returned.
loadSettings(f) ==
    CASE f.kind = "object" -> f.obj
      [] f.kind = "null"   -> NullSettings
      [] OTHER             -> EmptySettings

\* what the handlers do with the loaded value first: reading a property of null throws
LoadedIsNull(s) == s = NullSettings

\* { ...current }: spreading null gives {}
Spread(s) == IF LoadedIsNull(s) THEN NoFields ELSE s

\* fs.writeFileSync opens with flag "w" (truncate) and then writes: it either
\* succeeds, fails before the file is opened (file untouched), or fails after
\* the truncation (file left empty or partly written).
WriteOutcomes == {"ok", "fail_intact", "fail_truncated"}

toSave_DropsDatabaseId(settings) ==
    Settings(JsOr(settings.notionToken, Empty),
             Empty,
             JsOr(settings.googleVisionKey, Empty))

toSave(settings) ==
    Settings(JsOr(settings.notionToken, Empty),
             JsOr(settings.notionDatabaseId, Empty),
             JsOr(settings.googleVisionKey, Empty))

\* saveSettings: the file after the call; the call returns true iff outcome = "ok".
\* Storage that cannot be read cannot be written either.
saveSettings(f, settings, outcome) ==
    CASE f.kind = "unreadable"      -> f
      [] outcome = "ok"             -> File("object", toSave(settings))
      [] outcome = "fail_truncated" -> File("badjson", EmptySettings)
      [] OTHER                      -> f

saveOk(f, outcome) == f.kind # "unreadable" /\ outcome = "ok"

\* !!(a && b && c)
isConfigured_IgnoresDatabaseId(s) ==
    Truthy(JsAnd(s.notionToken, s.googleVisionKey))

isConfigured(s) ==
    Truthy(JsAnd(JsAnd(s.notionToken, s.notionDatabaseId), s.googleVisionKey))

\* the masked view both settings handlers put in their response
MaskedView(s) ==
    Settings(IF Truthy(s.notionToken) THEN maskKey(s.notionToken, NtnPrefix) ELSE Empty,
             JsOr(s.notionDatabaseId, Empty),
             IF Truthy(s.googleVisionKey) THEN maskKey(s.googleVisionKey, AIzaPrefix) ELSE Empty)

\* PUT /api/settings, lines 803-814: the merge of incoming into current
mergeSettings(current, incoming) ==
    LET c == Spread(current)
    IN  Settings(
          IF Truthy(incoming.notionToken) /\ ~Includes(incoming.notionToken, MaskTest)
            THEN incoming.notionToken ELSE c.notionToken,
          IF incoming.notionDatabaseId # Undefined
            THEN incoming.notionDatabaseId ELSE c.notionDatabaseId,
          IF Truthy(incoming.googleVisionKey) /\ ~Includes(incoming.googleVisionKey, MaskTest)
            THEN incoming.googleVisionKey ELSE c.googleVisionKey)

----------------------------------------------------------------------------
(* Values drawn for requests and for the initial file *)

Take(s, n) == SubSeq(s, 1, Min(n, Len(s)))

TokenBase == <<"n", "t", "n", "_", "a", "b", "c", "d", "e", "f", "g", "h">>
VisionBase == <<"A", "I", "z", "a", "S", "y", "1", "2", "3", "4", "5", "6">>
DbBase == <<"d", "b", "0", "1", "2", "3", "4", "5", "6", "7", "8", "9">>

\* secrets of length 0, 3 (shorter than the kept prefix) and MaxKeyLen
KeyLens == {0, 3, MaxKeyLen}

\* what a client can put in the three fields of a PUT body: nothing, a plain
\* value, a value as GET returned it (masked), a value carrying the marker
TokenInputs ==
    {Undefined} \cup {Take(TokenBase, n) : n \in KeyLens}
                \cup {maskKey(Take(TokenBase, n), NtnPrefix) : n \in {3, MaxKeyLen}}
DatabaseIdInputs ==
    {Undefined, Empty, Take(DbBase, 6), Take(DbBase, 2) \o MaskTest \o Take(DbBase, 2)}
VisionKeyInputs ==
    {Undefined, Empty, Take(VisionBase, MaxKeyLen),
     maskKey(Take(VisionBase, MaxKeyLen), AIzaPrefix)}

PutBodies ==
    {Settings(t, d, g) : t \in TokenInputs, d \in DatabaseIdInputs, g \in VisionKeyInputs}

\* the settings file when the process starts
InitialFiles ==
    {File(k, EmptySettings) : k \in FileKinds \ {"object"}}
    \cup {File("object", NoFields),
          File("object", Settings(Take(TokenBase, MaxKeyLen), Take(DbBase, 6),
                                  Take(VisionBase, MaxKeyLen)))}

\* "Bearer " + token
Bearer == <<"B", "e", "a", "r", "e", "r", " ">>
JsToString(v) == IF v = Undefined THEN <<"u", "n", "d", "e", "f", "i", "n", "e", "d">> ELSE v

AuthHeaders == {Undefined, Bearer \o Take(TokenBase, 6)}
EnvValues == {Undefined, Take(TokenBase, 6)}
ClientDatabaseIds == {Undefined, Take(DbBase, 3)}
PathDatabaseId == Take(DbBase, 3)

\* what the provider does with a forwarded call: a success, an error status
\* with or without a message, or no usable answer (fetch or response.json() throws)
NoMessage == ""
ProviderAnswers ==
    {[ok |-> TRUE, status |-> 200, message |-> NoMessage, throws |-> FALSE],
     [ok |-> FALSE, status |-> 0, message |-> "fetch failed", throws |-> TRUE]}
    \cup {[ok |-> FALSE, status |-> 401, message |-> "Unauthorized", throws |-> FALSE],
          [ok |-> FALSE, status |-> 404, message |-> NoMessage, throws |-> FALSE]}

----------------------------------------------------------------------------
(* HTTP exchanges *)

NotionOps == {"v1 POST /api/notion/pages", "v1 POST /api/notion/databases/:id/query",
              "env POST /api/notion",
              "v2 POST /api/notion/pages", "v2 POST /api/notion/databases/:id/query"}
OcrOps == {"env POST /api/vision", "v2 POST /api/ocr"}

IdleFile == File("absent", EmptySettings)

\* an exchange: the request, what the handler forwarded upstream, what the
\* provider answered and what the handler sent back (status 0: nothing sent)
Exchange(op, before) ==
    [op |-> op, before |-> before, incoming |-> NoFields,
     cred |-> Undefined, credDb |-> Undefined, reqDb |-> Undefined,
     status |-> 0, body |-> "none", success |-> FALSE,
     view |-> EmptySettings, configured |-> FALSE,
     message |-> NoMessage, error |-> NoMessage,
     merged |-> EmptySettings,
     calls |-> 0, upAuth |-> Undefined, upDb |-> Undefined,
     upOk |-> FALSE, upStatus |-> 0, upMessage |-> NoMessage, upThrows |-> FALSE]

\* express answers an exception thrown by a synchronous handler with its default 500 page
SyncThrow(x) == [x EXCEPT !.status = 500, !.body = "html_error"]

\* an exception thrown by an async handler outside its try block rejects the
\* handler's promise: express 5 answers 500, express 4 sends nothing
AsyncThrow(x) == {[x EXCEPT !.status = 500, !.body = "html_error"], x}

Reply(x, status, message) == [x EXCEPT !.status = status, !.body = "message", !.message = message]

----------------------------------------------------------------------------
(* Settings API (v2) *)

\* a GET that writes the settings it loaded back to the file
GetSettings_WritesBack ==
    LET settings == loadSettings(file)
        x == Exchange("GET /api/settings", file)
    IN  /\ last' = IF LoadedIsNull(settings)
                     THEN SyncThrow(x)
                     ELSE [x EXCEPT !.status = 200, !.body = "settings",
                                    !.view = MaskedView(settings),
                                    !.configured = isConfigured(settings)]
        /\ file' = IF LoadedIsNull(settings) THEN file ELSE File("object", toSave(settings))
        /\ UNCHANGED <<pending, env, appSettings, mk, scanVars, tt, fx>>

\* GET /api/settings
GetSettings ==
    LET settings == loadSettings(file)
        x == Exchange("GET /api/settings", file)
    IN  /\ last' = IF LoadedIsNull(settings)
                     THEN SyncThrow(x)
                     ELSE [x EXCEPT !.status = 200, !.body = "settings",
                                    !.view = MaskedView(settings),
                                    !.configured = isConfigured(settings)]
        /\ UNCHANGED <<file, pending, env, appSettings, mk, scanVars, tt, fx>>

\* PUT /api/settings with body incoming; outcome is what the file write does
PutSettings(incoming, outcome) ==
    LET current == loadSettings(file)
        updated == mergeSettings(current, incoming)
        ok == saveOk(file, outcome)
        x == [Exchange("PUT /api/settings", file) EXCEPT !.incoming = incoming]
    IN  /\ file' = saveSettings(file, updated, outcome)
        /\ last' = IF ok
                     THEN [x EXCEPT !.status = 200, !.body = "saved", !.success = TRUE,
                                    !.view = MaskedView(updated),
                                    !.configured = isConfigured(updated),
                                    !.merged = updated]
                     ELSE [x EXCEPT !.status = 500, !.body = "message", !.success = FALSE,
                                    !.message = "Failed to save settings"]
        /\ UNCHANGED <<pending, env, appSettings, mk, scanVars, tt, fx>>

----------------------------------------------------------------------------
(* API gateway: a request either is answered at once or forwards one call *)

Forward(x, auth, db) ==
    /\ Len(pending) < MaxPending
    /\ pending' = Append(pending, [x EXCEPT !.calls = 1, !.upAuth = auth, !.upDb = db])
    /\ UNCHANGED last

Answer(x) ==
    /\ last' = x
    /\ UNCHANGED pending

\* a gateway exchange records the credentials its handler found (cred, credDb)
\* and the database id the client sent (reqDb), not the file
GatewayExchange(op, cred, credDb, reqDb) ==
    [Exchange(op, IdleFile) EXCEPT !.cred = cred, !.credDb = credDb, !.reqDb = reqDb]

\* v1 POST /api/notion/pages: the body, parent included, is forwarded as it came
V1CreatePage(authHeader) ==
    LET x == GatewayExchange("v1 POST /api/notion/pages", authHeader, PathDatabaseId, PathDatabaseId)
    IN  /\ IF ~Truthy(authHeader)
             THEN Answer(Reply(x, 401, "Missing Authorization header"))
             ELSE Forward(x, authHeader, PathDatabaseId)
        /\ UNCHANGED <<file, env, appSettings, mk, scanVars, tt, fx>>

\* v1 POST /api/notion/databases/:id/query
V1QueryDatabase(authHeader) ==
    LET x == GatewayExchange("v1 POST /api/notion/databases/:id/query", authHeader,
                             PathDatabaseId, PathDatabaseId)
    IN  /\ IF ~Truthy(authHeader)
             THEN Answer(Reply(x, 401, "Missing Authorization header"))
             ELSE Forward(x, authHeader, PathDatabaseId)
        /\ UNCHANGED <<file, env, appSettings, mk, scanVars, tt, fx>>

\* env POST /api/notion: token from process.env, database id from the body
EnvCreatePage(db) ==
    LET x == GatewayExchange("env POST /api/notion", env.NOTION_TOKEN, db, db)
    IN  /\ Forward(x, Bearer \o JsToString(env.NOTION_TOKEN), db)
        /\ UNCHANGED <<file, env, appSettings, mk, scanVars, tt, fx>>

\* env POST /api/vision: key from process.env
EnvVision ==
    LET x == GatewayExchange("env POST /api/vision", env.GOOGLE_API_KEY, Undefined, Undefined)
    IN  /\ Forward(x, JsToString(env.GOOGLE_API_KEY), Undefined)
        /\ UNCHANGED <<file, env, appSettings, mk, scanVars, tt, fx>>

\* a create-page handler that forwards the parent and the Authorization header
\* of the request when it has them
V2CreatePage_AsSent(db, authHeader) ==
    LET settings == loadSettings(file)
        token == settings.notionToken
        dbId == settings.notionDatabaseId
        x == GatewayExchange("v2 POST /api/notion/pages", token, dbId, db)
    IN  /\ IF LoadedIsNull(settings)
             THEN \E y \in AsyncThrow(x) : Answer(y)
             ELSE IF ~Truthy(token)
               THEN Answer(Reply(x, 401, "Notion token not configured. Go to Settings."))
               ELSE IF ~Truthy(dbId)
                 THEN Answer(Reply(x, 400, "Notion database ID not configured. Go to Settings."))
                 ELSE Forward(x, IF Truthy(authHeader) THEN authHeader ELSE Bearer \o token,
                              IF Truthy(db) THEN db ELSE dbId)
        /\ UNCHANGED <<file, env, appSettings, mk, scanVars, tt, fx>>

\* v2 POST /api/notion/pages: token and database id from the settings file; the
\* Authorization header of the request is not read;
\* body.parent is overwritten with the stored database id
V2CreatePage(db, authHeader) ==
    LET settings == loadSettings(file)
        token == settings.notionToken
        dbId == settings.notionDatabaseId
        x == GatewayExchange("v2 POST /api/notion/pages", token, dbId, db)
    IN  /\ IF LoadedIsNull(settings)
             THEN \E y \in AsyncThrow(x) : Answer(y)
             ELSE IF ~Truthy(token)
               THEN Answer(Reply(x, 401, "Notion token not configured. Go to Settings."))
               ELSE IF ~Truthy(dbId)
                 THEN Answer(Reply(x, 400, "Notion database ID not configured. Go to Settings."))
                 ELSE Forward(x, Bearer \o token, dbId)
        /\ UNCHANGED <<file, env, appSettings, mk, scanVars, tt, fx>>

\* v2 POST /api/notion/databases/:id/query: token from the settings file, id from the URL
V2QueryDatabase ==
    LET settings == loadSettings(file)
        token == settings.notionToken
        x == GatewayExchange("v2 POST /api/notion/databases/:id/query", token,
                             PathDatabaseId, PathDatabaseId)
    IN  /\ IF LoadedIsNull(settings)
             THEN \E y \in AsyncThrow(x) : Answer(y)
             ELSE IF ~Truthy(token)
               THEN Answer(Reply(x, 401, "Notion token not configured."))
               ELSE Forward(x, Bearer \o token, PathDatabaseId)
        /\ UNCHANGED <<file, env, appSettings, mk, scanVars, tt, fx>>

\* v2 POST /api/ocr: key from the settings file
V2Ocr ==
    LET settings == loadSettings(file)
        key == settings.googleVisionKey
        x == GatewayExchange("v2 POST /api/ocr", key, Undefined, Undefined)
    IN  /\ IF LoadedIsNull(settings)
             THEN \E y \in AsyncThrow(x) : Answer(y)
             ELSE IF ~Truthy(key)
               THEN Answer(Reply(x, 401, "Google Vision API key not configured. Go to Settings."))
               ELSE Forward(x, key, Undefined)
        /\ UNCHANGED <<file, env, appSettings, mk, scanVars, tt, fx>>

\* The rest of each handler, after `await fetch` and `await response.json()`.
\* data.message || "Notion API error"
NotionMessage(ans) == IF ans.message = NoMessage THEN "Notion API error" ELSE ans.message

Answered(x, ans) ==
    [x EXCEPT !.upOk = ans.ok, !.upStatus = ans.status,
              !.upMessage = ans.message, !.upThrows = ans.throws]

\* v1 and v2 pages and query handlers: the provider's status and message, or 500 on an exception
RespondNotionProxy(x, ans) ==
    IF ans.throws
      THEN Reply(Answered(x, ans), 500, ans.message)
      ELSE IF ~ans.ok
        THEN Reply(Answered(x, ans), ans.status, NotionMessage(ans))
        ELSE [Answered(x, ans) EXCEPT !.status = 200, !.body = "data"]

\* env POST /api/notion: a non-success answer is thrown and caught with the exceptions
RespondEnvCreatePage(x, ans) ==
    IF ans.throws \/ ~ans.ok
      THEN [Answered(x, ans) EXCEPT !.status = 500, !.body = "error_details",
                                    !.error = IF ans.throws THEN ans.message ELSE NotionMessage(ans)]
      ELSE [Answered(x, ans) EXCEPT !.status = 200, !.body = "data"]

\* env POST /api/vision: whatever the provider answered is sent with status 200
RespondEnvVision(x, ans) ==
    IF ans.throws
      THEN [Answered(x, ans) EXCEPT !.status = 500, !.body = "error_details", !.error = ans.message]
      ELSE [Answered(x, ans) EXCEPT !.status = 200, !.body = "data"]

\* v2 POST /api/ocr: the provider's body with the provider's status
RespondV2Ocr(x, ans) ==
    IF ans.throws
      THEN Reply(Answered(x, ans), 500, ans.message)
      ELSE [Answered(x, ans) EXCEPT !.status = IF ans.ok THEN 200 ELSE ans.status, !.body = "data"]

Respond(x, ans) ==
    CASE x.op = "env POST /api/notion" -> RespondEnvCreatePage(x, ans)
      [] x.op = "env POST /api/vision" -> RespondEnvVision(x, ans)
      [] x.op = "v2 POST /api/ocr"     -> RespondV2Ocr(x, ans)
      [] OTHER                         -> RespondNotionProxy(x, ans)

\* the provider answers the i-th call in flight
ProviderAnswer(i, ans) ==
    /\ i \in 1..Len(pending)
    /\ last' = Respond(pending[i], ans)
    /\ pending' = SubSeq(pending, 1, i - 1) \o SubSeq(pending, i + 1, Len(pending))
    /\ UNCHANGED <<file, env, appSettings, mk, scanVars, tt, fx>>

----------------------------------------------------------------------------
(* v1 client: the App's settings state *)

AppFields == {"notionToken", "notionDatabaseId", "googleVisionKey", "proxyUrl"}
AppValues == {Empty, Take(TokenBase, 3)}

\* SettingsView: update(key, val)
update(key, val) ==
    /\ appSettings' = [appSettings EXCEPT ![key] = val]
    /\ UNCHANGED <<file, last, pending, env, mk, scanVars, tt, fx>>

\* App: isConfigured is the value of the && chain, used as a condition
AppIsConfigured(settings) ==
    JsAnd(JsAnd(settings.notionToken, settings.notionDatabaseId), settings.googleVisionKey)

----------------------------------------------------------------------------
(* One application of maskKey *)

MaskAlphabet == {"n", "t", "_"}
MaskKeys == UNION {[1..n -> MaskAlphabet] : n \in 0..MaxKeyLen}
MaskPrefixes == {Undefined, NtnPrefix, AIzaPrefix}

ApplyMaskKey ==
    /\ ~mk.applied
    /\ mk' = [mk EXCEPT !.applied = TRUE, !.out = maskKey(mk.key, mk.prefix)]
    /\ UNCHANGED <<file, last, pending, env, appSettings, scanVars, tt, fx>>

----------------------------------------------------------------------------
(* Client: text operations and the entry title *)

NewLine == "\n"
WhiteSpace == {" ", "\t", "\r", NewLine}

\* s.split("\n")[0]
FirstLine(s) ==
    LET breaks == {i \in 1..Len(s) : s[i] = NewLine}
    IN  IF breaks = {} THEN s
        ELSE SubSeq(s, 1, (CHOOSE i \in breaks : \A j \in breaks : i <= j) - 1)

\* s.trim()
trim(s) ==
    LET solid == {i \in 1..Len(s) : s[i] \notin WhiteSpace}
    IN  IF solid = {} THEN Empty
        ELSE SubSeq(s, CHOOSE i \in solid : \A j \in solid : i <= j,
                       CHOOSE i \in solid : \A j \in solid : i >= j)

Ellipsis == <<".", ".", ".">>
JournalEntryPrefix == <<"J", "o", "u", "r", "n", "a", "l", " ", "E", "n", "t", "r", "y", " ", "~", " ">>

\* new Date().toISOString().split("T")[0]
Today == <<"2", "0", "2", "6", "-", "0", "3", "-", "1", "5">>

\* "Journal Entry \u2014 " + entryDate
DefaultTitle(entryDate) == JournalEntryPrefix \o entryDate

\* the title handleFile gives a transcription: its first line, trimmed, cut
\* to 60 characters, or the default title when that line is empty
entryTitleFor_Slice57(fullText, entryDate) ==
    LET fl == JsOr(trim(FirstLine(fullText)), Empty)
    IN  IF Len(fl) > 60 THEN SliceHead(fl, 57) \o Ellipsis
        ELSE JsOr(fl, DefaultTitle(entryDate))

entryTitleFor(fullText, entryDate) ==
    LET fl == JsOr(trim(FirstLine(fullText)), Empty)
    IN  IF Len(fl) > 60 THEN SliceHead(fl, 60) \o Ellipsis
        ELSE JsOr(fl, DefaultTitle(entryDate))

SAMPLE_OCR ==
    <<"M", "a", "r", "c", "h", " ", "1", "4", ",", " ", "2", "0", "2", "6", "\n", "\n", "T",
      "o", "d", "a", "y", " ", "I", " ", "s", "p", "e", "n", "t", " ", "t", "i", "m", "e", " ",
      "r", "e", "f", "l", "e", "c", "t", "i", "n", "g", " ", "o", "n", " ", "h", "o", "w", " ",
      "q", "u", "i", "c", "k", "l", "y", " ", "l", "i", "f", "e", " ", "m", "o", "v", "e", "s",
      ".", " ", "T", "h", "e", " ", "c", "h", "a", "l", "l", "e", "n", "g", "e", "s", " ", "f",
      "e", "e", "l", " ", "b", "i", "g", "g", "e", "r", " ", "b", "u", "t", " ", "s", "o", " ",
      "d", "o", " ", "t", "h", "e", " ", "r", "e", "w", "a", "r", "d", "s", ".", "\n", "\n",
      "H", "a", "d", " ", "a", " ", "g", "o", "o", "d", " ", "c", "o", "n", "v", "e", "r", "s",
      "a", "t", "i", "o", "n", " ", "a", "b", "o", "u", "t", " ", "o", "u", "r", " ", "u", "p",
      "c", "o", "m", "i", "n", "g", " ", "s", "e", "r", "v", "i", "c", "e", " ", "p", "r", "o",
      "j", "e", "c", "t", ".", " ", "E", "v", "e", "r", "y", "o", "n", "e", " ", "s", "e", "e",
      "m", "s", " ", "e", "n", "e", "r", "g", "i", "z", "e", "d", " ", "a", "b", "o", "u", "t",
      " ", "n", "e", "x", "t", " ", "m", "o", "n", "t", "h", ".", " ", "N", "e", "e", "d", " ",
      "t", "o", " ", "f", "o", "l", "l", "o", "w", " ", "u", "p", " ", "w", "i", "t", "h", " ",
      "t", "h", "e", " ", "H", "e", "n", "d", "e", "r", "s", "o", "n", "s", " ", "a", "b", "o",
      "u", "t", " ", "h", "o", "s", "t", "i", "n", "g", ".", "\n", "\n", "W", "o", "r", "k",
      " ", "h", "a", "s", " ", "b", "e", "e", "n", " ", "i", "n", "t", "e", "r", "e", "s", "t",
      "i", "n", "g", " ", "~", " ", "f", "i", "n", "a", "l", "l", "y", " ", "g", "e", "t", "t",
      "i", "n", "g", " ", "t", "r", "a", "c", "t", "i", "o", "n", " ", "o", "n", " ", "t", "h",
      "e", " ", "n", "e", "w", " ", "f", "r", "a", "m", "e", "w", "o", "r", "k", ".", " ", "T",
      "h", "e", " ", "t", "e", "a", "m", " ", "i", "s", " ", "s", "t", "a", "r", "t", "i", "n",
      "g", " ", "t", "o", " ", "s", "e", "e", " ", "h", "o", "w", " ", "m", "u", "c", "h", " ",
      "f", "a", "s", "t", "e", "r", " ", "w", "e", " ", "c", "a", "n", " ", "m", "a", "k", "e",
      " ", "d", "e", "c", "i", "s", "i", "o", "n", "s", ".", "\n", "\n", "G", "r", "a", "t",
      "e", "f", "u", "l", " ", "f", "o", "r", " ", "a", " ", "q", "u", "i", "e", "t", " ", "e",
      "v", "e", "n", "i", "n", "g", " ", "a", "t", " ", "h", "o", "m", "e", ".">>

\* transcriptions for the title: a first line of n characters that are not
\* white space, with white space around it and text after it
LineChars == <<"a", "b", "c", "d", "e", "f", "g", "h", "i", "j">>
Line(n) == [i \in 1..n |-> LineChars[(i % 10) + 1]]
Pads == {Empty, <<" ">>, <<" ", "\t">>}
Rests == {Empty, <<NewLine, "x", NewLine>>}
OtherDate == <<"2", "0", "2", "6", "-", "0", "2", "-", "2", "8">>
Dates == {Today, OtherDate}
TitleText(t) == t.lead \o Line(t.n) \o t.trail \o t.rest

\* one application of the title rule
ApplyTitle ==
    /\ ~tt.applied
    /\ tt' = [tt EXCEPT !.applied = TRUE, !.title = entryTitleFor(TitleText(tt), tt.entryDate)]
    /\ UNCHANGED <<file, last, pending, env, appSettings, mk, scanVars, fx>>

----------------------------------------------------------------------------
(* Client: search, the blocks of a page and its tags *)

\* s.toLowerCase() on the letters A to Z
toLowerCase(s) ==
    LET upper == <<"A", "B", "C", "D", "E", "F", "G", "H", "I", "J", "K", "L", "M",
                   "N", "O", "P", "Q", "R", "S", "T", "U", "V", "W", "X", "Y", "Z">>
        lower == <<"a", "b", "c", "d", "e", "f", "g", "h", "i", "j", "k", "l", "m",
                   "n", "o", "p", "q", "r", "s", "t", "u", "v", "w", "x", "y", "z">>
        low(c) == IF \E k \in 1..26 : upper[k] = c
                    THEN lower[CHOOSE k \in 1..26 : upper[k] = c]
                    ELSE c
    IN  [i \in 1..Len(s) |-> low(s[i])]

\* s.split(sep) for a non-empty separator: the pieces between the occurrences
\* of sep, found from the left; a string without sep is one piece
RECURSIVE Split(_, _)
Split(s, sep) ==
    LET at == {i \in 1..(Len(s) - Len(sep) + 1) : SubSeq(s, i, i + Len(sep) - 1) = sep}
    IN  IF at = {} THEN <<s>>
        ELSE LET i == CHOOSE k \in at : \A j \in at : k <= j
             IN  <<SubSeq(s, 1, i - 1)>> \o Split(SubSeq(s, i + Len(sep), Len(s)), sep)

\* a search that compares the search text as typed with the lowered fields
filtered_SearchAsTyped(log, search) ==
    LET shown(e) == \/ Includes(toLowerCase(e.title), search)
                    \/ Includes(toLowerCase(e.ocrText), search)
                    \/ Includes(toLowerCase(JsOr(e.tags, Empty)), search)
    IN  SelectSeq(log, shown)

\* EntriesView: the entries shown for the text of the search box
filtered(log, search) ==
    LET q == toLowerCase(search)
        shown(e) == \/ Includes(toLowerCase(e.title), q)
                    \/ Includes(toLowerCase(e.ocrText), q)
                    \/ Includes(toLowerCase(JsOr(e.tags, Empty)), q)
    IN  SelectSeq(log, shown)

\* a page body that keeps the pieces that are empty after trimming
children_KeepsBlank(editedText) ==
    LET block(type, content) == [type |-> type, content |-> content]
        pieces == Split(editedText, <<NewLine, NewLine>>)
    IN  <<block("heading_2", <<"Transcribed Text">>)>>
        \o [i \in 1..Len(pieces) |-> block("paragraph", trim(pieces[i]))]
        \o <<block("divider", <<>>),
              block("heading_2", <<"Original Scan">>),
              block("paragraph",
                    <<"Original handwritten page image is attached to this entry.">>)>>

\* sendToNotion: notionBody.children for the edited text (the paper-clip sign
\* that opens the last paragraph is left out)
children(editedText) ==
    LET block(type, content) == [type |-> type, content |-> content]
        pieces == Split(editedText, <<NewLine, NewLine>>)
        kept == SelectSeq(pieces, LAMBDA p : Truthy(trim(p)))
    IN  <<block("heading_2", <<"Transcribed Text">>)>>
        \o [i \in 1..Len(kept) |-> block("paragraph", trim(kept[i]))]
        \o <<block("divider", <<>>),
              block("heading_2", <<"Original Scan">>),
              block("paragraph",
                    <<"Original handwritten page image is attached to this entry.">>)>>

\* sendToNotion: the Tags property of notionBody.properties for the tags field
tagsProperty(entryTags) ==
    LET pieces == Split(entryTags, <<",">>)
        names == [i \in 1..Len(pieces) |-> trim(pieces[i])]
    IN  IF Truthy(entryTags)
          THEN [present |-> TRUE, multi_select |-> SelectSeq(names, Truthy)]
          ELSE [present |-> FALSE, multi_select |-> <<>>]

\* the functions applied once to the inputs held in fx
ApplySearch ==
    /\ fx.op = "search" /\ ~fx.applied
    /\ fx' = [fx EXCEPT !.applied = TRUE, !.out = filtered(fx.log, fx.search)]
    /\ UNCHANGED <<file, last, pending, env, appSettings, mk, scanVars, tt>>

ApplyChildren ==
    /\ fx.op = "children" /\ ~fx.applied
    /\ fx' = [fx EXCEPT !.applied = TRUE, !.out = children(fx.text)]
    /\ UNCHANGED <<file, last, pending, env, appSettings, mk, scanVars, tt>>

ApplyTags ==
    /\ fx.op = "tags" /\ ~fx.applied
    /\ fx' = [fx EXCEPT !.applied = TRUE, !.out = tagsProperty(fx.text)]
    /\ UNCHANGED <<file, last, pending, env, appSettings, mk, scanVars, tt>>

----------------------------------------------------------------------------
(* Client: component state *)

STATUS ==
    [IDLE |-> "idle", UPLOADING |-> "uploading", PROCESSING |-> "processing",
     OCR_COMPLETE |-> "ocr_complete", SENDING |-> "sending",
     COMPLETE |-> "complete", ERROR |-> "error"]

Tabs == {"scan", "entries", "settings"}

\* a message built with +: its pieces in order; NoText is ""
NoText == <<>>
IsBlank(m) == \A i \in 1..Len(m) : m[i] = ""

\* the useState values of a ScanView that has just been mounted
NewScanView ==
    [status |-> STATUS.IDLE, imageData |-> Null, fileName |-> Empty,
     ocrText |-> Empty, editedText |-> Empty, entryTitle |-> Empty,
     entryDate |-> Today, entryTags |-> Empty, error |-> NoText, progress |-> ""]

\* the useState values of the App; the v1 App has no loadingConfig and
\* computes isConfigured from its settings
NewApp(c) == [activeTab |-> "scan", isConfigured |-> FALSE, loadingConfig |-> (c = "v2")]

\* a file the user picks: its name and the data URL FileReader reads from it
PickedFiles == {[name |-> <<"p", ".", "j", "p", "g">>, data |-> <<"d", "a", "t", "a", ":", "i", "m", "a", "g", "e", "/", "j", "p", "e", "g", ";", "b", "a", "s", "e", "6", "4", ",", "Q", "Q", "=", "=">>]}

\* the draft values a closure of ScanView holds
Draft(title, date, tags, text, image) ==
    [title |-> title, date |-> date, tags |-> tags, text |-> text, image |-> image]
NoDraft == Draft(Empty, Empty, Empty, Empty, Null)
ScanDraft ==
    Draft(scan.entryTitle, scan.entryDate, scan.entryTags, scan.editedText, scan.imageData)

\* a continuation: what it awaits (kind), whether the ScanView that started it
\* is still mounted (alive), and the values its closure captured.  keyStored
\* is history: whether the stored settings held an OCR key when it started.
Task(kind, draft) ==
    [kind |-> kind, alive |-> TRUE, demo |-> FALSE, keyStored |-> FALSE, draft |-> draft,
     key |-> Undefined, token |-> Undefined, dbId |-> Undefined]
NoTask == [Task("none", NoDraft) EXCEPT !.alive = FALSE]

\* page: the object the provider returns for a created page
Page(id, url) == [id |-> id, url |-> url]
NoPage == Page(Undefined, Undefined)

\* an element of entries; Date.now() and new Date() read a clock that stands still
LocalId == <<"1", "7", "7", "3", "5", "6", "8", "8", "0", "0", "0", "0", "0">>
NowISO == <<"2", "0", "2", "6", "-", "0", "3", "-", "1", "5", "T", "1", "0", ":", "0", "0", ":", "0", "0", ".", "0", "0", "0", "Z">>
\* an entry whose url field is filled from its id
Entry_UrlFromId(id, draft, notionUrl) ==
    [id |-> id, title |-> draft.title, date |-> draft.date, tags |-> draft.tags,
     ocrText |-> draft.text, imageData |-> draft.image, notionUrl |-> id,
     createdAt |-> NowISO]
\* an entry that loses the tags of the draft
Entry_DropsTags(id, draft, notionUrl) ==
    [id |-> id, title |-> draft.title, date |-> draft.date, tags |-> Empty,
     ocrText |-> draft.text, imageData |-> draft.image, notionUrl |-> notionUrl,
     createdAt |-> NowISO]
Entry(id, draft, notionUrl) ==
    [id |-> id, title |-> draft.title, date |-> draft.date, tags |-> draft.tags,
     ocrText |-> draft.text, imageData |-> draft.image, notionUrl |-> notionUrl,
     createdAt |-> NowISO]

\* what ScanView renders
Mounted == app.activeTab = "scan"
UploadPanelShown == scan.status \in {STATUS.IDLE, STATUS.ERROR} /\ ~Truthy(scan.imageData)
\* a review panel that stays on screen while the page is being created
ReviewPanelShown_WhileSending == scan.status \in {STATUS.OCR_COMPLETE, STATUS.SENDING}
ReviewPanelShown == scan.status = STATUS.OCR_COMPLETE
CompletePanelShown == scan.status = STATUS.COMPLETE
ErrorBannerShown == ~IsBlank(scan.error)

\* a state setter of ScanView called by a continuation: React drops it when
\* the component has been unmounted
SetScan(task, next) == IF task.alive THEN next ELSE scan

Remove(i) == SubSeq(tasks, 1, i - 1) \o SubSeq(tasks, i + 1, Len(tasks))

----------------------------------------------------------------------------
(* Client: what fetch gives the client *)

\* the provider's answer to a call, with the body it sends
ProviderBody ==
    [ok |-> TRUE, status |-> 200, message |-> NoMessage, throws |-> FALSE,
     hasError |-> FALSE, errorMessage |-> "", hasResponses |-> FALSE, text |-> Empty,
     page |-> NoPage]

\* transcriptions the OCR provider returns
ShortText == <<"W", "a", "l", "k", "\n", "\n", "S", "u", "n", " ">>
LongText == Line(MaxLineLen) \o <<NewLine>> \o ShortText
BlankLineText == <<" ", NewLine>> \o ShortText
OcrTexts == {ShortText, LongText, BlankLineText}

\* Vision: text found, nothing found, an error payload, no usable answer
VisionAnswers ==
    {[ProviderBody EXCEPT !.hasResponses = TRUE, !.text = t] : t \in OcrTexts}
    \cup {[ProviderBody EXCEPT !.hasResponses = TRUE],
          [ProviderBody EXCEPT !.ok = FALSE, !.status = 400, !.hasError = TRUE,
                               !.errorMessage = "API key not valid"],
          [ProviderBody EXCEPT !.ok = FALSE, !.status = 0, !.throws = TRUE,
                               !.message = "fetch failed"]}

PageId == <<"p", "a", "g", "e", "-", "1">>
PageUrl == <<"h", "t", "t", "p", "s", ":", "/", "/", "w", "w", "w", ".", "n", "o", "t", "i", "o", "n", ".", "s", "o", "/", "p", "a", "g", "e", "-", "1">>

\* Notion: a created page (with or without id and url) or one of ProviderAnswers
NotionAnswers ==
    {[ProviderBody EXCEPT !.page = Page(PageId, PageUrl)], ProviderBody}
    \cup {[ProviderBody EXCEPT !.ok = a.ok, !.status = a.status, !.message = a.message,
                               !.throws = a.throws] : a \in {b \in ProviderAnswers : ~b.ok}}

\* what the client has after `await fetch` and `await response.json()`
Fetched ==
    [rejects |-> FALSE, hangs |-> FALSE, ok |-> FALSE, status |-> 0, parses |-> FALSE,
     message |-> "", hasError |-> FALSE, errorMessage |-> "", hasResponses |-> FALSE,
     text |-> Empty, page |-> NoPage, dbId |-> Undefined, isConfigured |-> FALSE]

\* the request does not reach the server
FetchRejects == [Fetched EXCEPT !.rejects = TRUE, !.message = "Failed to fetch"]

\* the record of a client step: the continuation that ran, what its fetch gave
\* it and the message of the exception it caught; scans and edits count the
\* images selected and the edits made so far
Step(kind, task) ==
    [kind |-> kind, task |-> task, reply |-> Fetched, message |-> NoText,
     scans |-> step.scans, edits |-> step.edits]
NoStep ==
    [kind |-> "none", task |-> NoTask, reply |-> Fetched, message |-> NoText,
     scans |-> 0, edits |-> 0]

\* the response to a completed exchange x of the server; ans is the provider's
\* answer the handler passed on
FromExchange(x, ans) ==
    IF x.status = 0 THEN [Fetched EXCEPT !.hangs = TRUE]
    ELSE LET r == [Fetched EXCEPT !.status = x.status, !.ok = x.status \in 200..299]
         IN  CASE x.body = "message" -> [r EXCEPT !.parses = TRUE, !.message = x.message]
               [] x.body = "data" ->
                    [r EXCEPT !.parses = TRUE, !.hasError = ans.hasError,
                              !.errorMessage = ans.errorMessage,
                              !.hasResponses = ans.hasResponses, !.text = ans.text,
                              !.page = ans.page]
               [] x.body = "settings" ->
                    [r EXCEPT !.parses = TRUE, !.dbId = x.view.notionDatabaseId,
                              !.isConfigured = x.configured]
               [] OTHER -> r

\* the answer of Vision to a call the v1 client makes itself
FromVision(ans) ==
    IF ans.throws THEN FetchRejects
    ELSE [Fetched EXCEPT !.status = ans.status, !.ok = ans.ok, !.parses = TRUE,
                         !.hasError = ans.hasError, !.errorMessage = ans.errorMessage,
                         !.hasResponses = ans.hasResponses, !.text = ans.text]

Forwarded(x, auth, db) == [x EXCEPT !.calls = 1, !.upAuth = auth, !.upDb = db]

\* GET /api/settings answered for file f
SettingsAnswers(f) ==
    LET settings == loadSettings(f)
        x == Exchange("GET /api/settings", f)
    IN  IF LoadedIsNull(settings) THEN {SyncThrow(x)}
        ELSE {[x EXCEPT !.status = 200, !.body = "settings",
                        !.view = MaskedView(settings),
                        !.configured = isConfigured(settings)]}

\* v2 POST /api/ocr answered for file f when the provider answers ans
OcrAnswers(f, ans) ==
    LET settings == loadSettings(f)
        key == settings.googleVisionKey
        x == GatewayExchange("v2 POST /api/ocr", key, Undefined, Undefined)
    IN  IF LoadedIsNull(settings) THEN AsyncThrow(x)
        ELSE IF ~Truthy(key)
          THEN {Reply(x, 401, "Google Vision API key not configured. Go to Settings.")}
          ELSE {RespondV2Ocr(Forwarded(x, key, Undefined), ans)}

\* v2 POST /api/notion/pages answered for file f when the provider answers ans
V2PagesAnswers(f, db, ans) ==
    LET settings == loadSettings(f)
        token == settings.notionToken
        dbId == settings.notionDatabaseId
        x == GatewayExchange("v2 POST /api/notion/pages", token, dbId, db)
    IN  IF LoadedIsNull(settings) THEN AsyncThrow(x)
        ELSE IF ~Truthy(token)
          THEN {Reply(x, 401, "Notion token not configured. Go to Settings.")}
          ELSE IF ~Truthy(dbId)
            THEN {Reply(x, 400, "Notion database ID not configured. Go to Settings.")}
            ELSE {RespondNotionProxy(Forwarded(x, Bearer \o token, dbId), ans)}

\* v1 POST /api/notion/pages answered when the provider answers ans
V1PagesAnswers(authHeader, db, ans) ==
    LET x == GatewayExchange("v1 POST /api/notion/pages", authHeader, db, db)
    IN  IF ~Truthy(authHeader) THEN {Reply(x, 401, "Missing Authorization header")}
        ELSE {RespondNotionProxy(Forwarded(x, authHeader, db), ans)}

----------------------------------------------------------------------------
(* Client: ScanView *)

\* handleFile(file) up to reader.readAsDataURL: the closure holds the
\* configured flag (v1: the OCR key) and the entryDate of the current render
handleFile(f) ==
    /\ Mounted
    /\ UploadPanelShown
    /\ step.scans < MaxScans
    /\ LET t == [Task("read", Draft(Empty, scan.entryDate, Empty, Empty, f.data)) EXCEPT
                   !.demo = IF client = "v1" THEN ~Truthy(appSettings.googleVisionKey)
                            ELSE ~app.isConfigured,
                   !.key = IF client = "v1" THEN appSettings.googleVisionKey ELSE Undefined,
                   !.keyStored = IF client = "v1" THEN Truthy(appSettings.googleVisionKey)
                                 ELSE Truthy(loadSettings(file).googleVisionKey)]
       IN  /\ scan' = [scan EXCEPT !.error = NoText, !.fileName = f.name,
                                   !.status = STATUS.UPLOADING,
                                   !.progress = "Reading image..."]
           /\ tasks' = Append(tasks, t)
           /\ step' = [Step("handleFile", t) EXCEPT !.scans = step.scans + 1]
    /\ UNCHANGED <<file, last, pending, env, appSettings, mk, client, app, entries, tt, fx>>

\* a reader.onload that does not keep the image it read
readerOnload_DropsImage(i) ==
    /\ i \in 1..Len(tasks)
    /\ tasks[i].kind = "read"
    /\ LET t == tasks[i]
       IN  /\ scan' = SetScan(t, [scan EXCEPT !.imageData = scan.imageData,
                                              !.status = STATUS.PROCESSING,
                                              !.progress = "Running handwriting OCR..."])
           /\ tasks' = [tasks EXCEPT ![i].kind = IF t.demo THEN "timer" ELSE "ocr"]
           /\ step' = Step("reader.onload", t)
    /\ UNCHANGED <<file, last, pending, env, appSettings, mk, client, app, entries, tt, fx>>

\* reader.onload up to its first await
readerOnload(i) ==
    /\ i \in 1..Len(tasks)
    /\ tasks[i].kind = "read"
    /\ LET t == tasks[i]
       IN  /\ scan' = SetScan(t, [scan EXCEPT !.imageData = t.draft.image,
                                              !.status = STATUS.PROCESSING,
                                              !.progress = "Running handwriting OCR..."])
           /\ tasks' = [tasks EXCEPT ![i].kind = IF t.demo THEN "timer" ELSE "ocr"]
           /\ step' = Step("reader.onload", t)
    /\ UNCHANGED <<file, last, pending, env, appSettings, mk, client, app, entries, tt, fx>>

\* the read fails: FileReader has no onerror handler, nothing runs
readerFails(i) ==
    /\ i \in 1..Len(tasks)
    /\ tasks[i].kind = "read"
    /\ tasks' = Remove(i)
    /\ step' = Step("reader error", tasks[i])
    /\ UNCHANGED <<file, last, pending, env, appSettings, mk, client, app, scan, entries, tt, fx>>

\* reader.onload after the 1500 ms timer: the sample text
demoText(i) ==
    /\ i \in 1..Len(tasks)
    /\ tasks[i].kind = "timer"
    /\ LET t == tasks[i]
       IN  /\ scan' = SetScan(t, [scan EXCEPT !.ocrText = SAMPLE_OCR,
                                              !.editedText = SAMPLE_OCR,
                                              !.entryTitle = DefaultTitle(t.draft.date),
                                              !.status = STATUS.OCR_COMPLETE,
                                              !.progress = ""])
           /\ tasks' = Remove(i)
           /\ step' = Step("demo text", t)
    /\ UNCHANGED <<file, last, pending, env, appSettings, mk, client, app, entries, tt, fx>>

\* what the OCR fetch of a continuation can give
OcrReplies ==
    IF client = "v1"
      THEN {FromVision(ans) : ans \in VisionAnswers}
      ELSE {FetchRejects}
           \cup UNION {{FromExchange(x, ans) : x \in OcrAnswers(file, ans)} : ans \in VisionAnswers}

\* a || b || c for messages, "" being falsy
FirstMessage(a, b, c) == IF a # "" THEN a ELSE IF b # "" THEN b ELSE c

JsonSyntaxError == "Unexpected token < in JSON at position 0"

\* the try block of reader.onload without its check that a text came back
OcrOutcome_AcceptsNoText(r) ==
    LET failure(m) == [failed |-> TRUE, message |-> m, text |-> Empty]
    IN  IF r.rejects THEN failure(r.message)
        ELSE IF ~r.parses THEN failure(JsonSyntaxError)
        ELSE IF r.hasError
          THEN failure(IF client = "v1" THEN r.errorMessage
                       ELSE FirstMessage(r.errorMessage, r.message, "OCR failed"))
        ELSE IF client = "v2" /\ r.message # "" /\ ~r.hasResponses THEN failure(r.message)
        ELSE [failed |-> FALSE, message |-> "", text |-> r.text]

\* the try block of reader.onload: the text, or the message of the exception
OcrOutcome(r) ==
    LET failure(m) == [failed |-> TRUE, message |-> m, text |-> Empty]
    IN  IF r.rejects THEN failure(r.message)
        ELSE IF ~r.parses THEN failure(JsonSyntaxError)
        ELSE IF r.hasError
          THEN failure(IF client = "v1" THEN r.errorMessage
                       ELSE FirstMessage(r.errorMessage, r.message, "OCR failed"))
        ELSE IF client = "v2" /\ r.message # "" /\ ~r.hasResponses THEN failure(r.message)
        ELSE IF ~Truthy(r.text) THEN failure("No text detected. Try a clearer photo.")
        ELSE [failed |-> FALSE, message |-> "", text |-> r.text]

\* reader.onload after `await fetch`
ocrResolves(i, r) ==
    /\ i \in 1..Len(tasks)
    /\ tasks[i].kind = "ocr"
    /\ r \in OcrReplies
    /\ LET t == tasks[i]
           o == OcrOutcome(r)
       IN  IF r.hangs
             THEN /\ tasks' = [tasks EXCEPT ![i].kind = "ocr unanswered"]
                  /\ step' = [Step("no response", t) EXCEPT !.reply = r]
                  /\ UNCHANGED scan
             ELSE /\ tasks' = Remove(i)
                  /\ IF o.failed
                       THEN /\ scan' = SetScan(t, [scan EXCEPT
                                          !.error = <<"OCR Error: ", o.message>>,
                                          !.status = STATUS.ERROR, !.progress = ""])
                            /\ step' = [Step("ocr error", t) EXCEPT !.reply = r,
                                                                    !.message = <<o.message>>]
                       ELSE /\ scan' = SetScan(t, [scan EXCEPT
                                          !.ocrText = o.text, !.editedText = o.text,
                                          !.entryTitle = entryTitleFor(o.text, t.draft.date),
                                          !.status = STATUS.OCR_COMPLETE, !.progress = ""])
                            /\ step' = [Step("ocr text", t) EXCEPT !.reply = r]
    /\ UNCHANGED <<file, last, pending, env, appSettings, mk, client, app, entries, tt, fx>>

\* the review panel's inputs: onChange of title, date, tags and text
EditedTitle == <<"M", "y", " ", "d", "a", "y">>
EditedTags == <<"a", ",", " ", "b">>
EditedText == <<"W", "a", "l", "k", "\n", "\n", "S", "u", "n">>

setEntryTitle(v) ==
    /\ Mounted /\ ReviewPanelShown /\ step.edits < MaxEdits
    /\ scan' = [scan EXCEPT !.entryTitle = v]
    /\ step' = [Step("onChange", NoTask) EXCEPT !.edits = step.edits + 1]
    /\ UNCHANGED <<file, last, pending, env, appSettings, mk, client, app, entries, tasks, tt, fx>>

setEntryDate(v) ==
    /\ Mounted /\ ReviewPanelShown /\ step.edits < MaxEdits
    /\ scan' = [scan EXCEPT !.entryDate = v]
    /\ step' = [Step("onChange", NoTask) EXCEPT !.edits = step.edits + 1]
    /\ UNCHANGED <<file, last, pending, env, appSettings, mk, client, app, entries, tasks, tt, fx>>

setEntryTags(v) ==
    /\ Mounted /\ ReviewPanelShown /\ step.edits < MaxEdits
    /\ scan' = [scan EXCEPT !.entryTags = v]
    /\ step' = [Step("onChange", NoTask) EXCEPT !.edits = step.edits + 1]
    /\ UNCHANGED <<file, last, pending, env, appSettings, mk, client, app, entries, tasks, tt, fx>>

\* an edit of the text that also overwrites what OCR returned
setEditedText_AlsoRaw(v) ==
    /\ Mounted /\ ReviewPanelShown /\ step.edits < MaxEdits
    /\ scan' = [scan EXCEPT !.editedText = v, !.ocrText = v]
    /\ step' = [Step("onChange", NoTask) EXCEPT !.edits = step.edits + 1]
    /\ UNCHANGED <<file, last, pending, env, appSettings, mk, client, app, entries, tasks, tt, fx>>

setEditedText(v) ==
    /\ Mounted /\ ReviewPanelShown /\ step.edits < MaxEdits
    /\ scan' = [scan EXCEPT !.editedText = v]
    /\ step' = [Step("onChange", NoTask) EXCEPT !.edits = step.edits + 1]
    /\ UNCHANGED <<file, last, pending, env, appSettings, mk, client, app, entries, tasks, tt, fx>>

\* sendToNotion up to its first await; the v1 client checks its credentials first
sendToNotion ==
    /\ Mounted
    /\ ReviewPanelShown
    /\ IF client = "v1" /\ (~Truthy(appSettings.notionToken) \/ ~Truthy(appSettings.notionDatabaseId))
         THEN /\ scan' = [scan EXCEPT
                            !.error = <<"Please configure Notion credentials in Settings.">>]
              /\ step' = Step("sendToNotion refused", NoTask)
              /\ UNCHANGED tasks
         ELSE LET t == IF client = "v1"
                         THEN [Task("pages", ScanDraft) EXCEPT
                                 !.token = appSettings.notionToken,
                                 !.dbId = appSettings.notionDatabaseId]
                         ELSE Task("settings", ScanDraft)
              IN  /\ scan' = [scan EXCEPT !.status = STATUS.SENDING,
                                          !.progress = "Creating Notion page...",
                                          !.error = NoText]
                  /\ tasks' = Append(tasks, t)
                  /\ step' = Step("sendToNotion", t)
    /\ UNCHANGED <<file, last, pending, env, appSettings, mk, client, app, entries, tt, fx>>

\* a catch block of sendToNotion that also clears the title field
NotionFailure_ClearsTitle(t, m) ==
    /\ scan' = SetScan(t, [scan EXCEPT !.error = <<"Notion Error: ">> \o m,
                                       !.status = STATUS.ERROR, !.progress = "",
                                       !.entryTitle = Empty])
    /\ UNCHANGED entries

\* the catch block of sendToNotion
NotionFailure(t, m) ==
    /\ scan' = SetScan(t, [scan EXCEPT !.error = <<"Notion Error: ">> \o m,
                                       !.status = STATUS.ERROR, !.progress = ""])
    /\ UNCHANGED entries

SettingsReplies == {FetchRejects} \cup {FromExchange(x, ProviderBody) : x \in SettingsAnswers(file)}

\* v2 sendToNotion after `await fetch("/api/settings")`, up to the second fetch
settingsResolves(i, r) ==
    /\ i \in 1..Len(tasks)
    /\ tasks[i].kind = "settings"
    /\ r \in SettingsReplies
    /\ LET t == tasks[i]
           m == IF r.rejects THEN <<r.message>>
                ELSE IF ~r.parses THEN <<JsonSyntaxError>>
                ELSE IF ~Truthy(r.dbId)
                  THEN <<"Notion Database ID not configured. Go to Settings.">>
                  ELSE NoText
       IN  IF m # NoText
             THEN /\ NotionFailure(t, m)
                  /\ tasks' = Remove(i)
                  /\ step' = [Step("settings error", t) EXCEPT !.reply = r, !.message = m]
             ELSE /\ tasks' = [tasks EXCEPT ![i].kind = "pages", ![i].dbId = r.dbId]
                  /\ step' = [Step("settings loaded", t) EXCEPT !.reply = r]
                  /\ UNCHANGED <<scan, entries>>
    /\ UNCHANGED <<file, last, pending, env, appSettings, mk, client, app, tt, fx>>

\* what the create-page fetch of continuation t can give
PagesReplies(t) ==
    {FetchRejects}
    \cup UNION {{FromExchange(x, ans) :
                   x \in IF client = "v1"
                           THEN V1PagesAnswers(Bearer \o t.token, t.dbId, ans)
                           ELSE V2PagesAnswers(file, t.dbId, ans)} : ans \in NotionAnswers}

\* sendToNotion after `await fetch(".../api/notion/pages")`
pagesResolves(i, r) ==
    /\ i \in 1..Len(tasks)
    /\ tasks[i].kind = "pages"
    /\ r \in PagesReplies(tasks[i])
    /\ LET t == tasks[i]
           m == IF r.rejects THEN <<r.message>>
                ELSE IF ~r.ok
                  THEN IF r.parses /\ r.message # "" THEN <<r.message>>
                       ELSE <<"Notion API error: ", ToString(r.status)>>
                ELSE IF ~r.parses THEN <<JsonSyntaxError>>
                ELSE NoText
       IN  IF r.hangs
             THEN /\ tasks' = [tasks EXCEPT ![i].kind = "pages unanswered"]
                  /\ step' = [Step("no response", t) EXCEPT !.reply = r]
                  /\ UNCHANGED <<scan, entries>>
             ELSE /\ tasks' = Remove(i)
                  /\ IF m # NoText
                       THEN /\ NotionFailure(t, m)
                            /\ step' = [Step("createPage error", t) EXCEPT !.reply = r,
                                                                           !.message = m]
                       ELSE /\ entries' = <<Entry(JsOr(r.page.id, LocalId), t.draft,
                                                  JsOr(r.page.url, Null))>> \o entries
                            /\ scan' = SetScan(t, [scan EXCEPT
                                          !.progress = "Entry created successfully!",
                                          !.status = STATUS.COMPLETE])
                            /\ step' = [Step("createPage", t) EXCEPT !.reply = r]
    /\ UNCHANGED <<file, last, pending, env, appSettings, mk, client, app, tt, fx>>

\* a Save Locally that also starts a create-page request
saveLocally_AlsoSubmits ==
    /\ Mounted
    /\ ReviewPanelShown
    /\ entries' = <<Entry(LocalId, ScanDraft, Null)>> \o entries
    /\ scan' = [scan EXCEPT !.status = STATUS.COMPLETE,
                            !.progress = "Saved locally (not synced to Notion)."]
    /\ tasks' = Append(tasks, Task("pages", ScanDraft))
    /\ step' = Step("saveLocally", NoTask)
    /\ UNCHANGED <<file, last, pending, env, appSettings, mk, client, app, tt, fx>>

\* a Save Locally that leaves the review panel on screen
saveLocally_StaysInReview ==
    /\ Mounted
    /\ ReviewPanelShown
    /\ entries' = <<Entry(LocalId, ScanDraft, Null)>> \o entries
    /\ scan' = [scan EXCEPT !.progress = "Saved locally (not synced to Notion)."]
    /\ step' = Step("saveLocally", NoTask)
    /\ UNCHANGED <<file, last, pending, env, appSettings, mk, client, app, tasks, tt, fx>>

\* Save Locally Only in the review panel
saveLocally ==
    /\ Mounted
    /\ ReviewPanelShown
    /\ entries' = <<Entry(LocalId, ScanDraft, Null)>> \o entries
    /\ scan' = [scan EXCEPT !.status = STATUS.COMPLETE,
                            !.progress = "Saved locally (not synced to Notion)."]
    /\ step' = Step("saveLocally", NoTask)
    /\ UNCHANGED <<file, last, pending, env, appSettings, mk, client, app, tasks, tt, fx>>

\* a reset that also empties the log
resetState_ClearsLog ==
    /\ Mounted
    /\ ReviewPanelShown \/ CompletePanelShown
    /\ scan' = NewScanView
    /\ entries' = <<>>
    /\ step' = Step("resetState", NoTask)
    /\ UNCHANGED <<file, last, pending, env, appSettings, mk, client, app, tasks, tt, fx>>

\* a reset that keeps the file name
resetState_KeepsFileName ==
    /\ Mounted
    /\ ReviewPanelShown \/ CompletePanelShown
    /\ scan' = [NewScanView EXCEPT !.fileName = scan.fileName]
    /\ step' = Step("resetState", NoTask)
    /\ UNCHANGED <<file, last, pending, env, appSettings, mk, client, app, entries, tasks, tt, fx>>

\* Cancel in the review panel, Scan Another Page in the complete panel
resetState ==
    /\ Mounted
    /\ ReviewPanelShown \/ CompletePanelShown
    /\ scan' = NewScanView
    /\ step' = Step("resetState", NoTask)
    /\ UNCHANGED <<file, last, pending, env, appSettings, mk, client, app, entries, tasks, tt, fx>>

\* a dismissal that also takes the workflow back to idle
dismissError_AlsoIdle ==
    /\ Mounted
    /\ ErrorBannerShown
    /\ scan' = [scan EXCEPT !.error = NoText, !.status = STATUS.IDLE]
    /\ step' = Step("dismissError", NoTask)
    /\ UNCHANGED <<file, last, pending, env, appSettings, mk, client, app, entries, tasks, tt, fx>>

\* the X of the error banner
dismissError ==
    /\ Mounted
    /\ ErrorBannerShown
    /\ scan' = [scan EXCEPT !.error = NoText]
    /\ step' = Step("dismissError", NoTask)
    /\ UNCHANGED <<file, last, pending, env, appSettings, mk, client, app, entries, tasks, tt, fx>>

----------------------------------------------------------------------------
(* Client: the App and SettingsView *)

\* a tab button: ScanView is rendered only on the scan tab, so leaving the tab
\* unmounts it and coming back mounts a new one
setActiveTab(tab) ==
    /\ tab # app.activeTab
    /\ app' = [app EXCEPT !.activeTab = tab]
    /\ scan' = IF Mounted THEN NewScanView ELSE scan
    /\ tasks' = IF Mounted
                  THEN [i \in 1..Len(tasks) |->
                          IF tasks[i].kind = "config" THEN tasks[i]
                          ELSE [tasks[i] EXCEPT !.alive = FALSE]]
                  ELSE tasks
    /\ step' = Step("setActiveTab", NoTask)
    /\ UNCHANGED <<file, last, pending, env, appSettings, mk, client, entries, tt, fx>>

\* v2 App: the effect that fetches /api/settings once, after the first render
ConfigTask == Task("config", NoDraft)

configResolves(i, r) ==
    /\ i \in 1..Len(tasks)
    /\ tasks[i].kind = "config"
    /\ r \in SettingsReplies
    /\ app' = IF r.rejects \/ ~r.parses
                THEN [app EXCEPT !.loadingConfig = FALSE]
                ELSE [app EXCEPT !.isConfigured = r.isConfigured, !.loadingConfig = FALSE]
    /\ tasks' = Remove(i)
    /\ step' = [Step("config", tasks[i]) EXCEPT !.reply = r]
    /\ UNCHANGED <<file, last, pending, env, appSettings, mk, client, scan, entries, tt, fx>>

\* v2 SettingsView: handleSave with the form as body, and PUT /api/settings
\* answering it; onSettingsChanged is the App's setIsConfigured
handleSave(form, outcome) ==
    /\ client = "v2"
    /\ app.activeTab = "settings"
    /\ LET updated == mergeSettings(loadSettings(file), form)
       IN  /\ file' = saveSettings(file, updated, outcome)
           /\ app' = IF saveOk(file, outcome)
                       THEN [app EXCEPT !.isConfigured = isConfigured(updated)]
                       ELSE app
    /\ step' = Step("handleSave", NoTask)
    /\ UNCHANGED <<last, pending, env, appSettings, mk, client, scan, entries, tasks, tt, fx>>

\* v1 SettingsView: update(key, val) on the App's settings
settingsUpdate(key, val) ==
    /\ client = "v1"
    /\ app.activeTab = "settings"
    /\ appSettings' = [appSettings EXCEPT ![key] = val]
    /\ step' = Step("update", NoTask)
    /\ UNCHANGED <<file, last, pending, env, mk, client, app, scan, entries, tasks, tt, fx>>

----------------------------------------------------------------------------
(* Specifications *)

IdleEnv == [NOTION_TOKEN |-> Undefined, GOOGLE_API_KEY |-> Undefined]
IdleApp == [notionToken |-> Empty, notionDatabaseId |-> Empty, googleVisionKey |-> Empty,
            proxyUrl |-> Empty]
IdleMk == [key |-> Empty, prefix |-> Undefined, out |-> Empty, applied |-> FALSE]
\* no client at work
IdleScan ==
    /\ client = "v2"
    /\ app = NewApp("v2")
    /\ scan = NewScanView
    /\ entries = <<>>
    /\ tasks = <<>>
    /\ step = NoStep
IdleFx == [op |-> "none", parts |-> <<>>, text |-> Empty, log |-> <<>>, search |-> Empty,
           out |-> <<>>, applied |-> FALSE]
IdleTt == [lead |-> Empty, n |-> 0, trail |-> Empty, rest |-> Empty, entryDate |-> Today,
           title |-> Empty, applied |-> FALSE]

\* the settings store: GET and PUT /api/settings over the settings file
Init ==
    /\ file \in InitialFiles
    /\ last = Exchange("none", file)
    /\ pending = <<>>
    /\ env = IdleEnv
    /\ appSettings = IdleApp
    /\ mk = IdleMk
    /\ IdleScan
    /\ tt = IdleTt
    /\ fx = IdleFx

Next ==
    \/ GetSettings
    \/ \E incoming \in PutBodies, outcome \in WriteOutcomes : PutSettings(incoming, outcome)

Spec == Init /\ [][Next]_vars

\* the gateway: all handlers of the three variants, with settings updates in between
GatewayPutBodies ==
    {Settings(Take(TokenBase, 3), Undefined, Undefined),
     Settings(Undefined, Take(DbBase, 6), Take(VisionBase, MaxKeyLen)),
     Settings(Undefined, Empty, Undefined)}

InitGateway ==
    /\ file \in {f \in InitialFiles :
                   f.kind \in {"absent", "null"} \/ (f.kind = "object" /\ f.obj # NoFields)}
    /\ last = Exchange("none", file)
    /\ pending = <<>>
    /\ env \in {[NOTION_TOKEN |-> v, GOOGLE_API_KEY |-> v] : v \in EnvValues}
    /\ appSettings = IdleApp
    /\ mk = IdleMk
    /\ IdleScan
    /\ tt = IdleTt
    /\ fx = IdleFx

NextGateway ==
    \/ GetSettings
    \/ \E incoming \in GatewayPutBodies, outcome \in WriteOutcomes : PutSettings(incoming, outcome)
    \/ \E a \in AuthHeaders : V1CreatePage(a)
    \/ \E a \in AuthHeaders : V1QueryDatabase(a)
    \/ \E db \in ClientDatabaseIds : EnvCreatePage(db)
    \/ EnvVision
    \/ \E db \in ClientDatabaseIds, a \in AuthHeaders : V2CreatePage(db, a)
    \/ V2QueryDatabase
    \/ V2Ocr
    \/ \E i \in 1..MaxPending, ans \in ProviderAnswers : ProviderAnswer(i, ans)

SpecGateway == InitGateway /\ [][NextGateway]_vars

\* the configured flag: the settings API and the v1 client's settings form
InitApp ==
    /\ file = IdleFile
    /\ last = Exchange("none", file)
    /\ pending = <<>>
    /\ env = IdleEnv
    /\ appSettings = IdleApp
    /\ mk = IdleMk
    /\ IdleScan
    /\ tt = IdleTt
    /\ fx = IdleFx

NextApp ==
    \/ GetSettings
    \/ \E incoming \in GatewayPutBodies, outcome \in WriteOutcomes : PutSettings(incoming, outcome)
    \/ \E key \in AppFields, val \in AppValues : update(key, val)

SpecApp == InitApp /\ [][NextApp]_vars

\* maskKey applied to every key up to MaxKeyLen characters
InitMask ==
    /\ file = IdleFile
    /\ last = Exchange("none", file)
    /\ pending = <<>>
    /\ env = IdleEnv
    /\ appSettings = IdleApp
    /\ mk \in {[key |-> k, prefix |-> p, out |-> Empty, applied |-> FALSE] :
                  k \in MaskKeys, p \in MaskPrefixes}
    /\ IdleScan
    /\ tt = IdleTt
    /\ fx = IdleFx

NextMask == ApplyMaskKey

SpecMask == InitMask /\ [][NextMask]_vars

\* the title rule applied to every transcription drawn
InitTitle ==
    /\ file = IdleFile
    /\ last = Exchange("none", file)
    /\ pending = <<>>
    /\ env = IdleEnv
    /\ appSettings = IdleApp
    /\ mk = IdleMk
    /\ IdleScan
    /\ tt \in {[lead |-> l, n |-> n, trail |-> t, rest |-> r, entryDate |-> d,
                title |-> Empty, applied |-> FALSE] :
                  l \in Pads, n \in 0..MaxLineLen, t \in Pads, r \in Rests, d \in Dates}
    /\ fx = IdleFx

NextTitle == ApplyTitle

SpecTitle == InitTitle /\ [][NextTitle]_vars

\* the settings a client starts with: the file of the v2 server, the
\* settings state of the v1 App (none, Notion only, all three)
ScanFiles ==
    {File("absent", EmptySettings), File("null", EmptySettings),
     File("object", Settings(Take(TokenBase, MaxKeyLen), Take(DbBase, 6), Empty)),
     File("object", Settings(Take(TokenBase, MaxKeyLen), Take(DbBase, 6),
                             Take(VisionBase, MaxKeyLen)))}

V1Settings ==
    {IdleApp,
     [IdleApp EXCEPT !.notionToken = Take(TokenBase, 3), !.notionDatabaseId = Take(TokenBase, 3)],
     [IdleApp EXCEPT !.notionToken = Take(TokenBase, 3), !.notionDatabaseId = Take(TokenBase, 3),
                     !.googleVisionKey = Take(TokenBase, 3)]}

ScanForms ==
    {Settings(Take(TokenBase, MaxKeyLen), Take(DbBase, 6), Take(VisionBase, MaxKeyLen)),
     Settings(Undefined, Empty, Undefined)}

\* the scan workflow and the entry log: one browser page of either variant,
\* with the server and the providers behind its requests
InitScan ==
    /\ client \in {"v1", "v2"}
    /\ file \in IF client = "v2" THEN ScanFiles ELSE {IdleFile}
    /\ last = Exchange("none", IdleFile)
    /\ pending = <<>>
    /\ env = IdleEnv
    /\ appSettings \in IF client = "v1" THEN V1Settings ELSE {IdleApp}
    /\ mk = IdleMk
    /\ app = NewApp(client)
    /\ scan = NewScanView
    /\ entries = <<>>
    /\ tasks = IF client = "v2" THEN <<ConfigTask>> ELSE <<>>
    /\ step = NoStep
    /\ tt = IdleTt
    /\ fx = IdleFx

NextScan ==
    \/ \E f \in PickedFiles : handleFile(f)
    \/ \E i \in 1..Len(tasks) : readerOnload(i)
    \/ \E i \in 1..Len(tasks) : readerFails(i)
    \/ \E i \in 1..Len(tasks) : demoText(i)
    \/ \E i \in 1..Len(tasks) : \E r \in {q \in OcrReplies : q.text \in {Empty, ShortText}} :
           ocrResolves(i, r)
    \/ setEntryTitle(EditedTitle)
    \/ setEntryDate(OtherDate)
    \/ setEntryTags(EditedTags)
    \/ setEditedText(EditedText)
    \/ sendToNotion
    \/ \E i \in 1..Len(tasks) : \E r \in SettingsReplies : settingsResolves(i, r)
    \/ \E i \in 1..Len(tasks) : \E r \in PagesReplies(tasks[i]) : pagesResolves(i, r)
    \/ saveLocally
    \/ resetState
    \/ dismissError
    \/ \E tab \in Tabs : setActiveTab(tab)
    \/ \E i \in 1..Len(tasks) : \E r \in SettingsReplies : configResolves(i, r)

SpecScan == InitScan /\ [][NextScan]_vars

\* settings and scanning: the settings change while images are selected and
\* transcribed
InitSetup ==
    /\ client \in {"v1", "v2"}
    /\ file \in IF client = "v2" THEN ScanFiles ELSE {IdleFile}
    /\ last = Exchange("none", IdleFile)
    /\ pending = <<>>
    /\ env = IdleEnv
    /\ appSettings = IdleApp
    /\ mk = IdleMk
    /\ app = NewApp(client)
    /\ scan = NewScanView
    /\ entries = <<>>
    /\ tasks = IF client = "v2" THEN <<ConfigTask>> ELSE <<>>
    /\ step = NoStep
    /\ tt = IdleTt
    /\ fx = IdleFx

NextSetup ==
    \/ \E form \in ScanForms, outcome \in WriteOutcomes : handleSave(form, outcome)
    \/ \E key \in AppFields \ {"proxyUrl"}, val \in AppValues : settingsUpdate(key, val)
    \/ \E tab \in Tabs : setActiveTab(tab)
    \/ \E i \in 1..Len(tasks) : \E r \in SettingsReplies : configResolves(i, r)
    \/ \E f \in PickedFiles : handleFile(f)
    \/ \E i \in 1..Len(tasks) : readerOnload(i)
    \/ \E i \in 1..Len(tasks) : readerFails(i)
    \/ \E i \in 1..Len(tasks) : demoText(i)
    \/ \E i \in 1..Len(tasks) : \E r \in OcrReplies : ocrResolves(i, r)
    \/ resetState
    \/ dismissError

SpecSetup == InitSetup /\ [][NextSetup]_vars

\* the entry log across drafts: a page on which earlier drafts were appended
\* (OldLog) and, possibly, the create-page request of a draft that the user
\* left by changing tab is still in flight (Straggler)
OldTitle == <<"O", "l", "d">>
OldDraft(title) == Draft(title, OtherDate, Empty, ShortText, <<"d", "a", "t", "a", ":", "o", "l", "d">>)
OldLog ==
    <<Entry(PageId, OldDraft(OldTitle), PageUrl), Entry(LocalId, OldDraft(Empty), Null)>>
LogSettings ==
    [IdleApp EXCEPT !.notionToken = Take(TokenBase, 3), !.notionDatabaseId = Take(TokenBase, 3)]
LogFile ==
    File("object", Settings(Take(TokenBase, MaxKeyLen), Take(DbBase, 6),
                            Take(VisionBase, MaxKeyLen)))
Straggler ==
    [Task("pages", OldDraft(OldTitle)) EXCEPT
       !.alive = FALSE,
       !.token = IF client = "v1" THEN appSettings.notionToken ELSE Undefined,
       !.dbId = IF client = "v1" THEN appSettings.notionDatabaseId
                ELSE loadSettings(file).notionDatabaseId]

InitLog ==
    /\ client \in {"v1", "v2"}
    /\ file = IF client = "v2" THEN LogFile ELSE IdleFile
    /\ last = Exchange("none", IdleFile)
    /\ pending = <<>>
    /\ env = IdleEnv
    /\ appSettings = IF client = "v1" THEN LogSettings ELSE IdleApp
    /\ mk = IdleMk
    /\ app = NewApp(client)
    /\ scan = NewScanView
    /\ entries = OldLog
    /\ tasks \in {a \o b : a \in {IF client = "v2" THEN <<ConfigTask>> ELSE <<>>},
                             b \in {<<>>, <<Straggler>>}}
    /\ step = NoStep
    /\ tt = IdleTt
    /\ fx = IdleFx

NextLog ==
    \/ \E f \in PickedFiles : handleFile(f)
    \/ \E i \in 1..Len(tasks) : readerOnload(i)
    \/ \E i \in 1..Len(tasks) : readerFails(i)
    \/ \E i \in 1..Len(tasks) : demoText(i)
    \/ \E i \in 1..Len(tasks) : \E r \in {q \in OcrReplies : q.text \in {Empty, ShortText}} :
           ocrResolves(i, r)
    \/ setEntryTitle(EditedTitle)
    \/ setEntryDate(OtherDate)
    \/ setEntryTags(EditedTags)
    \/ setEditedText(EditedText)
    \/ sendToNotion
    \/ \E i \in 1..Len(tasks) : \E r \in SettingsReplies : settingsResolves(i, r)
    \/ \E i \in 1..Len(tasks) : \E r \in PagesReplies(tasks[i]) : pagesResolves(i, r)
    \/ saveLocally
    \/ resetState
    \/ dismissError
    \/ \E i \in 1..Len(tasks) : \E r \in SettingsReplies : configResolves(i, r)

SpecLog == InitLog /\ [][NextLog]_vars

\* search, the blocks of a page and its tags, each applied once to drawn
\* inputs: texts are pieces joined by the separator the function splits at
RECURSIVE Join(_, _)
Join(parts, sep) ==
    IF Len(parts) = 0 THEN Empty
    ELSE IF Len(parts) = 1 THEN parts[1]
    ELSE parts[1] \o sep \o Join(Tail(parts), sep)
RECURSIVE SeqsUpTo(_, _)
SeqsUpTo(S, n) ==
    IF n = 0 THEN {<<>>}
    ELSE LET shorter == SeqsUpTo(S, n - 1)
         IN  shorter \cup {Append(q, x) : q \in shorter, x \in S}
Segments == {Empty, <<" ">>, <<NewLine>>, <<"a">>, <<" ", "a", NewLine, "b", " ">>}
TagPieces == {Empty, <<" ">>, <<" ", "a">>, <<" ", "b", " ">>, <<" ", "c", " ">>}
SearchChars == {"a", "A", "n", "W"}
LogEntries ==
    {Entry(LocalId, Draft(<<"W", "a", "l", "k">>, Today, Empty, <<"S", "u", "n">>, Null), Null),
     Entry(PageId, Draft(<<"t", "e", "a">>, Today, <<"A", "n">>, <<"R", "A", "I", "N">>, Null),
           PageUrl),
     Entry(LocalId, Draft(Empty, OtherDate, <<"W", "a", ",", "n", "a">>, <<"x">>, Null), Null)}

InitText ==
    /\ file = IdleFile
    /\ last = Exchange("none", file)
    /\ pending = <<>>
    /\ env = IdleEnv
    /\ appSettings = IdleApp
    /\ mk = IdleMk
    /\ IdleScan
    /\ tt = IdleTt
    /\ fx \in {[IdleFx EXCEPT !.op = "search", !.log = l, !.search = q] :
                  l \in SeqsUpTo(LogEntries, MaxLogLen),
                  q \in SeqsUpTo(SearchChars, MaxSearchLen)}
             \cup {[IdleFx EXCEPT !.op = "children", !.parts = ps,
                                  !.text = Join(ps, <<NewLine, NewLine>>)] :
                     ps \in SeqsUpTo(Segments, MaxSegments) \ {<<>>}}
             \cup {[IdleFx EXCEPT !.op = "tags", !.parts = ps, !.text = Join(ps, <<",">>)] :
                     ps \in SeqsUpTo(TagPieces, MaxTags) \ {<<>>}}

NextText == ApplySearch \/ ApplyChildren \/ ApplyTags

SpecText == InitText /\ [][NextText]_vars

\* from the selection of an image to the review panel, the user staying on the
\* Scan tab: every read ends (onload, or an error), the demo timer fires and
\* every OCR fetch is answered or rejects
AnsweredOcrReplies == {r \in OcrReplies : ~r.hangs /\ r.text \in {Empty, ShortText}}
NextLive ==
    \/ \E f \in PickedFiles : handleFile(f)
    \/ \E i \in 1..Len(tasks) : readerOnload(i)
    \/ \E i \in 1..Len(tasks) : readerFails(i)
    \/ \E i \in 1..Len(tasks) : demoText(i)
    \/ \E i \in 1..Len(tasks) : \E r \in AnsweredOcrReplies : ocrResolves(i, r)
    \/ \E i \in 1..Len(tasks) : \E r \in SettingsReplies : configResolves(i, r)
    \/ resetState
    \/ dismissError

FairLive ==
    /\ WF_vars(\E i \in 1..Len(tasks) : readerOnload(i) \/ readerFails(i))
    /\ WF_vars(\E i \in 1..Len(tasks) : demoText(i))
    /\ WF_vars(\E i \in 1..Len(tasks) : \E r \in AnsweredOcrReplies : ocrResolves(i, r))

SpecLive == InitScan /\ [][NextLive]_vars /\ FairLive


----------------------------------------------------------------------------
(* Claims *)

SettingsFields == {"notionToken", "notionDatabaseId", "googleVisionKey"}
SecretFields == {"notionToken", "googleVisionKey"}

\* the value a field has in durable storage, as every reader sees it
StoredValue(f, k) == JsOr(loadSettings(f)[k], Empty)

IsString(v) == v # Undefined /\ v # Null
CarriesMarker(v) == IsString(v) /\ Includes(v, MaskTest)

PutSucceeded == last.op = "PUT /api/settings" /\ last.success
PutFailed == last.op = "PUT /api/settings" /\ ~last.success
GetAnswered == last.op = "GET /api/settings"

\* C1: after a successful PUT /api/settings, every field whose incoming value
\* contains the masking marker has the stored value it had before the request.
C1_MaskedValueNeverStored ==
    PutSucceeded =>
        \A k \in SettingsFields :
            CarriesMarker(last.incoming[k]) => StoredValue(file, k) = StoredValue(last.before, k)

\* C2: after a successful PUT /api/settings, each of the three fields holds the
\* incoming value if one was sent and it does not contain the masking marker,
\* and the previously stored value otherwise.
C2_UniformMergeRule ==
    PutSucceeded =>
        \A k \in SettingsFields :
            StoredValue(file, k) =
                IF IsString(last.incoming[k]) /\ ~CarriesMarker(last.incoming[k])
                  THEN last.incoming[k]
                  ELSE StoredValue(last.before, k)

\* C3: the token and the OCR key returned by GET /api/settings and by a
\* successful PUT /api/settings never are, and never contain, the stored secret,
\* whatever its length.
C3_SecretNeverReturnedInFull ==
    ((GetAnswered /\ last.status = 200) \/ PutSucceeded) =>
        \A k \in SecretFields :
            LET secret == StoredValue(file, k)
            IN  Truthy(secret) => /\ last.view[k] # secret
                                  /\ ~Includes(last.view[k], secret)

\* C4: for a secret of at least 8 characters the output of maskKey does not
\* change when a character after the first 4 and before the last 4 is replaced
\* or when a character is inserted there; the empty secret masks to the empty string.
ReplaceAt(s, i, c) == [s EXCEPT ![i] = c]
InsertAfter(s, i, c) == SubSeq(s, 1, i) \o <<c>> \o SubSeq(s, i + 1, Len(s))

C4_MaskDependsOnEndsOnly ==
    mk.applied =>
        /\ (mk.key = Empty => mk.out = Empty)
        /\ Len(mk.key) >= 8 =>
             /\ \A i \in 5..(Len(mk.key) - 4), c \in MaskAlphabet :
                    maskKey(ReplaceAt(mk.key, i, c), mk.prefix) = mk.out
             /\ \A i \in 4..(Len(mk.key) - 4), c \in MaskAlphabet :
                    maskKey(InsertAfter(mk.key, i, c), mk.prefix) = mk.out

C4_Witness ==
    /\ mk.applied
    /\ Len(mk.key) >= 9
    /\ mk.key[5] = "t"
    /\ mk.prefix = NtnPrefix
    /\ ~StartsWith(mk.key, NtnPrefix)
    /\ mk.out = SubSeq(mk.key, 1, 4) \o MaskMarker \o SubSeq(mk.key, Len(mk.key) - 3, Len(mk.key))

\* C5: the configured flag in the answers of GET and PUT /api/settings, and the
\* flag the v1 App computes from its settings, is true exactly when all three
\* fields are non-empty strings.
AllNonEmpty(s) == \A k \in SettingsFields : IsString(s[k]) /\ Len(s[k]) > 0

C5_ConfiguredIffAllThree ==
    /\ (GetAnswered /\ last.status = 200) => (last.configured <=> AllNonEmpty(loadSettings(file)))
    /\ PutSucceeded => (last.configured <=> AllNonEmpty(loadSettings(file)))
    /\ Truthy(AppIsConfigured(appSettings)) <=> AllNonEmpty(appSettings)

C5_Witness ==
    /\ PutSucceeded
    /\ last.configured
    /\ Truthy(loadSettings(last.before).notionToken)
    /\ ~Truthy(loadSettings(last.before).notionDatabaseId)
    /\ Truthy(AppIsConfigured(appSettings))

\* C6: whenever the settings file is absent, unreadable or does not hold a
\* settings object, loadSettings gives the all-empty settings and the handler
\* that called it answers: GET /api/settings answers 200 with three empty
\* fields and configured false.
C6_LoadFailsOpen ==
    (GetAnswered /\ last.before.kind # "object") =>
        /\ loadSettings(last.before) = EmptySettings
        /\ last.status = 200
        /\ last.view = EmptySettings
        /\ ~last.configured

\* C7: when writing the settings file fails, PUT /api/settings answers with an
\* error status and success false, and the durable settings are what they were
\* before the request.
C7_FailedSaveLeavesSettings ==
    PutFailed =>
        /\ last.status = 500
        /\ \A k \in SettingsFields : StoredValue(file, k) = StoredValue(last.before, k)

\* C8: right after a successful PUT /api/settings, a GET /api/settings returns
\* the masked settings and configured flag of the PUT response, and a v2
\* gateway request finds the merged credentials.
V2Ops == {"v2 POST /api/notion/pages", "v2 POST /api/notion/databases/:id/query", "v2 POST /api/ocr"}

\* the v2 gateway exchange a step starts: forwarded, or answered without a call
C8_Started ==
    IF Len(pending') > Len(pending)
      THEN {pending'[Len(pending')]}
      ELSE IF pending' = pending /\ last'.calls = 0 THEN {last'} ELSE {}

C8_Step ==
    PutSucceeded =>
        /\ (last'.op = "GET /api/settings") =>
              /\ last'.status = 200
              /\ last'.view = last.view
              /\ last'.configured = last.configured
        /\ \A x \in {y \in C8_Started : y.op \in V2Ops} :
              /\ x.op = "v2 POST /api/ocr" =>
                     x.cred = JsOr(last.merged.googleVisionKey, Empty)
              /\ x.op # "v2 POST /api/ocr" =>
                     x.cred = JsOr(last.merged.notionToken, Empty)
              /\ x.op = "v2 POST /api/notion/pages" =>
                     x.credDb = JsOr(last.merged.notionDatabaseId, Empty)
              /\ (x.calls = 1 /\ x.op = "v2 POST /api/notion/pages") =>
                     /\ x.upAuth = Bearer \o last.merged.notionToken
                     /\ x.upDb = last.merged.notionDatabaseId

C8_SavedBeforeResponding == [][C8_Step]_vars

C8_Witness ==
    /\ PutSucceeded
    /\ Truthy(last.incoming.notionDatabaseId)
    /\ Len(pending) = 1
    /\ pending[1].op = "v2 POST /api/notion/pages"
    /\ pending[1].upDb = last.incoming.notionDatabaseId

\* C9: a gateway request whose required credential is missing is answered with
\* a not-configured error (401 or 400) and forwards no call to the provider.
CreatePageOps == {"v1 POST /api/notion/pages", "env POST /api/notion", "v2 POST /api/notion/pages"}

CredentialMissing(x) ==
    /\ x.op \in NotionOps \cup OcrOps
    /\ x.cred # Null
    /\ \/ ~Truthy(x.cred)
       \/ x.op \in CreatePageOps /\ ~Truthy(x.credDb)

C9_NoCallWithoutCredentials ==
    /\ \A i \in 1..Len(pending) : ~CredentialMissing(pending[i])
    /\ CredentialMissing(last) => (last.calls = 0 /\ last.status \in {400, 401})

\* C10: when the document-database provider answers a forwarded create-page or
\* query call with a non-success status, the response carries that status and
\* the provider's message, and is not a success.
C10_ProviderStatusCarried ==
    (last.op \in NotionOps /\ last.calls = 1 /\ ~last.upThrows /\ ~last.upOk) =>
        /\ last.status = last.upStatus
        /\ last.upMessage # NoMessage => last.message = last.upMessage

\* C11: every gateway request makes at most one upstream call and is answered
\* exactly once, whether the call succeeds, returns an error status or throws;
\* an exception of the call becomes an error response with a message.
C11_OneCallOneResponse ==
    /\ \A i \in 1..Len(pending) : pending[i].calls = 1 /\ pending[i].status = 0
    /\ last.op \in NotionOps \cup OcrOps =>
          /\ last.calls \in {0, 1}
          /\ last.status # 0
          /\ last.upThrows =>
                /\ last.calls = 1
                /\ last.status = 500
                /\ last.body \in {"message", "error_details"}

\* C12: when the stored settings hold no OCR key, a selected image goes
\* Uploading, Processing, ReviewReady with the sample text as raw and as
\* editable text, and its continuation never calls the OCR gateway.
C12_DemoWithoutOcrKey ==
    /\ \A i \in 1..Len(tasks) :
          ~tasks[i].keyStored => tasks[i].kind \notin {"ocr", "ocr unanswered"}
    /\ (step.task.alive /\ ~step.task.keyStored) =>
          /\ step.kind = "handleFile" => scan.status = STATUS.UPLOADING
          /\ step.kind = "reader.onload" => scan.status = STATUS.PROCESSING
          /\ step.kind \in {"demo text", "ocr text", "ocr error"} =>
                /\ step.kind = "demo text"
                /\ scan.status = STATUS.OCR_COMPLETE
                /\ scan.ocrText = SAMPLE_OCR
                /\ scan.editedText = SAMPLE_OCR

\* C13: whenever the workflow enters ReviewReady, after an OCR success or in
\* demo mode, the raw text and the editable text are the same transcription
\* and the title is the one the title rule derives from its first line.
C13_ReviewReadyTitle ==
    (step.kind \in {"ocr text", "demo text"} /\ step.task.alive) =>
        /\ scan.status = STATUS.OCR_COMPLETE
        /\ Truthy(scan.ocrText)
        /\ scan.editedText = scan.ocrText
        /\ scan.entryTitle = entryTitleFor(scan.ocrText, scan.entryDate)

\* C14: the title of a transcription is its first line, trimmed; a first line
\* of more than 60 characters gives its first 60 characters followed by "..."
\* (63 characters), one of 1 to 60 characters is the title unchanged, and an
\* empty one gives "Journal Entry ~ " followed by the entry date.
C14_TitleRule ==
    tt.applied =>
        /\ tt.n > 60 => tt.title = Line(60) \o Ellipsis /\ Len(tt.title) = 63
        /\ tt.n \in 1..60 => tt.title = Line(tt.n) /\ Len(tt.title) = tt.n
        /\ tt.n = 0 => tt.title = JournalEntryPrefix \o tt.entryDate
C14_Witness ==
    /\ tt.applied
    /\ tt.n = 61
    /\ tt.lead # Empty
    /\ tt.rest # Empty
    /\ Len(tt.title) = 63

\* C15: when the OCR call fails (the request does not get through, the answer
\* carries a provider error or a gateway error message, or no text comes
\* back) the workflow goes from Processing to Error with a non-empty message,
\* and the selected image and its file name are still held.
C15_OcrFailed(r) ==
    \/ r.rejects
    \/ ~r.parses
    \/ r.hasError
    \/ ~r.ok /\ r.message # ""
    \/ ~Truthy(r.text)
C15_OcrFailureToError ==
    (step.kind \in {"ocr text", "ocr error"} /\ step.task.alive /\ C15_OcrFailed(step.reply)) =>
        /\ scan.status = STATUS.ERROR
        /\ ~IsBlank(scan.error)
        /\ \E f \in PickedFiles : scan.imageData = f.data /\ scan.fileName = f.name
C15_Witness ==
    /\ step.kind = "ocr error"
    /\ step.task.alive
    /\ step.reply.status = 401
    /\ scan.status = STATUS.ERROR
    /\ Truthy(scan.imageData)

\* C16: when createPage fails (the gateway answers with an error status, or
\* the request does not get through) the workflow goes from Sending to Error,
\* the error shown contains the message the gateway sent, the draft (title,
\* date, tags, edited text, image) is what it was, and the log is unchanged.
C16_SubmitFailureKeepsDraft ==
    [][(step'.kind = "createPage error" /\ step'.task.alive) =>
          /\ scan.status = STATUS.SENDING
          /\ scan'.status = STATUS.ERROR
          /\ ~IsBlank(scan'.error)
          /\ (step'.reply.parses /\ step'.reply.message # "") =>
                \E k \in 1..Len(scan'.error) : scan'.error[k] = step'.reply.message
          /\ ScanDraft' = ScanDraft
          /\ ScanDraft' = step'.task.draft
          /\ scan'.ocrText = scan.ocrText
          /\ entries' = entries]_vars
C16_Witness ==
    /\ step.kind = "createPage error"
    /\ step.task.alive
    /\ step.reply.status = 401
    /\ step.reply.message # ""
    /\ scan.status = STATUS.ERROR
    /\ scan.entryTitle = EditedTitle

\* C17: in every Error state of the workflow the user has an action that
\* resets the workflow to Idle or retries the failed step with the draft
\* that was kept: selecting an image again, Send to Notion, Save Locally or
\* Cancel.
C17_ErrorHasWayForward ==
    (Mounted /\ scan.status = STATUS.ERROR) =>
        \/ ENABLED resetState
        \/ ENABLED sendToNotion
        \/ ENABLED saveLocally
        \/ UploadPanelShown

\* C18: when createPage succeeds the workflow goes from Sending to Done and
\* exactly one entry is put in front of the log, with the id and the url the
\* provider returned and the title, date, tags, edited text and image of the
\* draft as they were at submit time; a success message is shown.
C18_SubmitSuccessAddsEntry ==
    [][(step'.kind = "createPage" /\ step'.task.alive) =>
          /\ scan.status = STATUS.SENDING
          /\ scan'.status = STATUS.COMPLETE
          /\ scan'.progress = "Entry created successfully!"
          /\ Len(entries') = Len(entries) + 1
          /\ Tail(entries') = entries
          /\ LET e == Head(entries')
                 d == step'.task.draft
                 page == step'.reply.page
             IN  /\ d = ScanDraft
                 /\ Truthy(page.id) => e.id = page.id
                 /\ Truthy(page.url) => e.notionUrl = page.url
                 /\ e.title = d.title /\ e.date = d.date /\ e.tags = d.tags
                 /\ e.ocrText = d.text /\ e.imageData = d.image]_vars
C18_Witness ==
    /\ step.kind = "createPage"
    /\ step.task.alive
    /\ scan.status = STATUS.COMPLETE
    /\ Len(entries) = 1
    /\ entries[1].id = PageId
    /\ entries[1].notionUrl = PageUrl
    /\ entries[1].tags = EditedTags

\* C19: Save Locally in ReviewReady puts exactly one entry in front of the
\* log, with a locally generated id, no url and the fields of the draft, moves
\* the workflow to Done and starts no request.
C19_SaveLocally ==
    [][step'.kind = "saveLocally" =>
          /\ scan.status = STATUS.OCR_COMPLETE
          /\ scan'.status = STATUS.COMPLETE
          /\ Len(entries') = Len(entries) + 1
          /\ Tail(entries') = entries
          /\ LET e == Head(entries')
             IN  /\ e.id = LocalId
                 /\ e.notionUrl = Null
                 /\ e.title = scan.entryTitle /\ e.date = scan.entryDate
                 /\ e.tags = scan.entryTags /\ e.ocrText = scan.editedText
                 /\ e.imageData = scan.imageData
          /\ tasks' = tasks]_vars
C19_Witness ==
    /\ step.kind = "saveLocally"
    /\ scan.status = STATUS.COMPLETE
    /\ Len(entries) = 1
    /\ entries[1].id = LocalId
    /\ entries[1].notionUrl = Null
    /\ entries[1].ocrText = EditedText

\* C20: an entry of the log has a url exactly when it was added by a
\* createPage success whose page carried a url: the log grows only by Save
\* Locally, whose entry has none, and by a createPage success, whose entry has
\* the url of the returned page or none, and entries already in the log keep
\* theirs.
C20_UrlOnlyFromCreatePage ==
    [][/\ entries' # entries =>
             /\ step'.kind \in {"createPage", "saveLocally"}
             /\ Len(entries') = Len(entries) + 1
             /\ Tail(entries') = entries
       /\ step'.kind = "saveLocally" => Head(entries').notionUrl = Null
       /\ step'.kind = "createPage" =>
             LET url == step'.reply.page.url
             IN  Head(entries').notionUrl = IF Truthy(url) THEN url ELSE Null]_vars
C20_Witness ==
    /\ step.kind = "createPage"
    /\ ~step.task.alive
    /\ Len(entries) = 1
    /\ entries[1].notionUrl = PageUrl

\* C21: the log is append-only and its entries are immutable: whatever the
\* step (an edit, a submit, a save, a reset, a dismissed error, a new scan, a
\* late answer), the entries that were in the log are still there afterwards,
\* with the same field values and in the same order, behind any new ones.
C21_AppendOnly ==
    [][/\ Len(entries') >= Len(entries)
       /\ SubSeq(entries', Len(entries') - Len(entries) + 1, Len(entries')) = entries]_vars
C21_Witness ==
    /\ step.kind = "resetState"
    /\ Len(entries) = 4
    /\ SubSeq(entries, 3, 4) = OldLog
    /\ entries[1] # entries[2]

\* C22: an appended entry records both the transcription as the user edited
\* it and the text exactly as OCR returned it: the entry just appended for the
\* draft on screen has the edited text in ocrText and carries the raw text in
\* a field of its own.
C22_EntryKeepsRawText ==
    (\/ step.kind = "saveLocally"
     \/ step.kind = "createPage" /\ step.task.alive) =>
        LET e == Head(entries)
        IN  /\ e.ocrText = scan.editedText
            /\ \E fld \in DOMAIN e : e[fld] = scan.ocrText

\* C23: new entries go to the front, so the first entry of the log is the one
\* produced by the most recent transition into Done: while the workflow on
\* screen is in Done, the first entry is the entry of its draft.
C23_FirstEntryIsLatestDone ==
    (Mounted /\ scan.status = STATUS.COMPLETE) =>
        /\ entries # <<>>
        /\ LET e == Head(entries)
           IN  /\ e.title = scan.entryTitle
               /\ e.date = scan.entryDate
               /\ e.tags = scan.entryTags
               /\ e.ocrText = scan.editedText
               /\ e.imageData = scan.imageData

\* C24: the search shows exactly the entries whose title, text or tags string
\* contains the search text, upper and lower case taken as equal, in the
\* order of the log; an empty search text shows every entry, and one that no
\* title, text or tags contains shows none.
C24_SameLetter(c, d) == c = d \/ {c, d} \in {{"a", "A"}, {"n", "N"}, {"w", "W"}}
C24_Contains(field, q) ==
    \E i \in 0..(Len(field) - Len(q)) :
        \A k \in 1..Len(q) : C24_SameLetter(field[i + k], q[k])
C24_Matches(e) ==
    \/ C24_Contains(e.title, fx.search)
    \/ C24_Contains(e.ocrText, fx.search)
    \/ C24_Contains(e.tags, fx.search)
C24_Search ==
    (fx.op = "search" /\ fx.applied) =>
        /\ fx.out = SelectSeq(fx.log, C24_Matches)
        /\ fx.search = Empty => fx.out = fx.log
        /\ (\A i \in 1..Len(fx.log) : ~C24_Matches(fx.log[i])) => fx.out = <<>>
C24_Witness ==
    /\ fx.op = "search" /\ fx.applied
    /\ fx.search = <<"a", "n">>
    /\ Len(fx.log) = 2
    /\ fx.out = <<fx.log[2]>>
    /\ fx.log[1] # fx.log[2]

\* C25: the body of a created page is one heading, then one paragraph for
\* each piece of the edited text between blank lines (two line breaks) that
\* is not empty after trimming, trimmed and in text order, then a divider, a
\* second heading and the fixed notice: 4 blocks plus one per such piece, and
\* no paragraph is empty.
C25_Blank(piece) == \A k \in 1..Len(piece) : piece[k] \in {" ", NewLine}
C25_TrimOf(content, piece) ==
    /\ content # Empty
    /\ ~C25_Blank(<<content[1]>>) /\ ~C25_Blank(<<content[Len(content)]>>)
    /\ \E i \in 1..Len(piece) :
          /\ SubSeq(piece, i, i + Len(content) - 1) = content
          /\ C25_Blank(SubSeq(piece, 1, i - 1))
          /\ C25_Blank(SubSeq(piece, i + Len(content), Len(piece)))
C25_NotBlank(piece) == ~C25_Blank(piece)
C25_PageBody ==
    (fx.op = "children" /\ fx.applied) =>
        LET solid == SelectSeq(fx.parts, C25_NotBlank)
            n == Len(fx.out)
        IN  /\ n = 4 + Len(solid)
            /\ fx.out[1].type = "heading_2"
            /\ \A i \in 1..Len(solid) :
                  /\ fx.out[1 + i].type = "paragraph"
                  /\ C25_TrimOf(fx.out[1 + i].content, solid[i])
            /\ fx.out[n - 2].type = "divider"
            /\ fx.out[n - 1].type = "heading_2"
            /\ fx.out[n].type = "paragraph" /\ ~C25_Blank(fx.out[n].content)
C25_Witness ==
    /\ fx.op = "children" /\ fx.applied
    /\ fx.parts = <<<<"a">>, <<" ">>, <<" ", "a", NewLine, "b", " ">>>>
    /\ Len(fx.out) = 6
    /\ fx.out[3].content = <<"a", NewLine, "b">>

\* C26: the tags sent with a created page are the pieces of the tags field
\* between commas, trimmed, without the empty ones, in the order typed, and
\* the Tags property is present only when at least one tag results.
C26_Blank(piece) == \A k \in 1..Len(piece) : piece[k] = " "
C26_NotBlank(piece) == ~C26_Blank(piece)
C26_TagOf(piece) == SelectSeq(piece, LAMBDA c : c # " ")
C26_Tags ==
    (fx.op = "tags" /\ fx.applied) =>
        LET solid == SelectSeq(fx.parts, C26_NotBlank)
        IN  /\ fx.out.multi_select = [i \in 1..Len(solid) |-> C26_TagOf(solid[i])]
            /\ fx.out.present <=> fx.out.multi_select # <<>>

\* C27: at most one OCR call and at most one submit call of the draft on
\* screen is outstanding, and while the workflow is Uploading, Processing or
\* Submitting neither the upload panel (image selection, which starts OCR) nor
\* the review panel (Send to Notion, Save Locally Only) is on screen.
C27_OcrSide(t) == t.alive /\ t.kind \in {"read", "timer", "ocr", "ocr unanswered"}
C27_SubmitSide(t) == t.alive /\ t.kind \in {"settings", "pages", "pages unanswered"}
C27_Busy == scan.status \in {STATUS.UPLOADING, STATUS.PROCESSING, STATUS.SENDING}
C27_OneInFlight ==
    /\ Cardinality({i \in 1..Len(tasks) : C27_OcrSide(tasks[i])}) <= 1
    /\ Cardinality({i \in 1..Len(tasks) : C27_SubmitSide(tasks[i])}) <= 1
    /\ \A i \in 1..Len(tasks) :
          /\ C27_OcrSide(tasks[i]) => scan.status \in {STATUS.UPLOADING, STATUS.PROCESSING}
          /\ C27_SubmitSide(tasks[i]) => scan.status = STATUS.SENDING
    /\ (Mounted /\ C27_Busy) =>
          /\ ~UploadPanelShown
          /\ ~ReviewPanelShown
          /\ ~ENABLED sendToNotion
          /\ ~ENABLED saveLocally
C27_Witness ==
    /\ Mounted
    /\ scan.status = STATUS.SENDING
    /\ step.kind = "sendToNotion"
    /\ \E i \in 1..Len(tasks) : C27_SubmitSide(tasks[i])

\* C28: while a ScanView is mounted its status changes only along the edges
\* Idle -> Uploading -> Processing -> ReviewReady -> Submitting -> Done,
\* ReviewReady -> Done, Done -> Idle, and into Error from Uploading,
\* Processing or Submitting; an entry is appended only by a step of a draft
\* that has a transcription, taken from ReviewReady or Submitting.
C28_Edges ==
    {<<STATUS.IDLE, STATUS.UPLOADING>>, <<STATUS.UPLOADING, STATUS.PROCESSING>>,
     <<STATUS.PROCESSING, STATUS.OCR_COMPLETE>>, <<STATUS.OCR_COMPLETE, STATUS.SENDING>>,
     <<STATUS.SENDING, STATUS.COMPLETE>>, <<STATUS.OCR_COMPLETE, STATUS.COMPLETE>>,
     <<STATUS.COMPLETE, STATUS.IDLE>>, <<STATUS.UPLOADING, STATUS.ERROR>>,
     <<STATUS.PROCESSING, STATUS.ERROR>>, <<STATUS.SENDING, STATUS.ERROR>>}
C28_StatusEdges ==
    [][/\ (Mounted /\ Mounted' /\ scan'.status # scan.status) =>
             <<scan.status, scan'.status>> \in C28_Edges
       /\ (Mounted /\ Mounted' /\ entries' # entries /\ step'.task.alive) =>
             /\ scan.status \in {STATUS.OCR_COMPLETE, STATUS.SENDING}
             /\ scan'.status = STATUS.COMPLETE]_vars

\* C29: Scan Another Page, pressed in Done, returns the workflow to Idle with
\* every draft field cleared (no image, no file name, no raw text, no edited
\* text, no title, no tags, no error, no progress message) and the date back
\* to today, and leaves the log as it was.
C29_ResetFromDone ==
    [][(step'.kind = "resetState" /\ scan.status = STATUS.COMPLETE) =>
          /\ scan'.status = STATUS.IDLE
          /\ scan'.imageData = Null
          /\ scan'.fileName = Empty
          /\ scan'.ocrText = Empty
          /\ scan'.editedText = Empty
          /\ scan'.entryTitle = Empty
          /\ scan'.entryTags = Empty
          /\ IsBlank(scan'.error)
          /\ scan'.progress = ""
          /\ scan'.entryDate = Today
          /\ entries' = entries]_vars
C29_Witness ==
    /\ step.kind = "resetState"
    /\ scan.status = STATUS.IDLE
    /\ Len(entries) = 3
    /\ entries[1].id = LocalId
    /\ entries[1].date = OtherDate
    /\ Truthy(entries[1].imageData)

\* C30: dismissing the error banner, whatever the workflow status, clears the
\* error message and changes nothing else: the status, the image, the file
\* name, both texts, title, date, tags and progress message of the draft and
\* the log are as they were.
C30_DismissClearsOnlyError ==
    [][step'.kind = "dismissError" =>
          /\ ~IsBlank(scan.error)
          /\ IsBlank(scan'.error)
          /\ scan'.status = scan.status
          /\ scan'.imageData = scan.imageData
          /\ scan'.fileName = scan.fileName
          /\ scan'.ocrText = scan.ocrText
          /\ scan'.editedText = scan.editedText
          /\ scan'.entryTitle = scan.entryTitle
          /\ scan'.entryDate = scan.entryDate
          /\ scan'.entryTags = scan.entryTags
          /\ scan'.progress = scan.progress
          /\ entries' = entries]_vars
C30_Witness ==
    /\ step.kind = "dismissError"
    /\ scan.status = STATUS.OCR_COMPLETE
    /\ IsBlank(scan.error)
    /\ Truthy(scan.editedText)
    /\ Truthy(scan.imageData)

\* C31: an edit of title, date, tags or text in the review panel changes only
\* the edited field: the status stays ReviewReady, the raw OCR text, the image,
\* the file name, the messages and the three other editable fields are as they
\* were, the log is unchanged and no call is started or answered.
C31_Editable == {"entryTitle", "entryDate", "entryTags", "editedText"}
C31_EditChangesOneField ==
    [][step'.kind = "onChange" =>
          /\ scan.status = STATUS.OCR_COMPLETE
          /\ scan'.status = STATUS.OCR_COMPLETE
          /\ \A f \in (DOMAIN scan) \ C31_Editable : scan'[f] = scan[f]
          /\ Cardinality({f \in C31_Editable : scan'[f] # scan[f]}) <= 1
          /\ entries' = entries
          /\ tasks' = tasks]_vars
C31_Witness ==
    /\ step.kind = "onChange"
    /\ scan.status = STATUS.OCR_COMPLETE
    /\ scan.editedText = EditedText
    /\ scan.ocrText # EditedText
    /\ Truthy(scan.ocrText)
    /\ Truthy(scan.imageData)
    /\ entries = OldLog

\* C32: the gateway operations (OCR, create page, query database, in each
\* variant), the provider's answers to them and GET /api/settings never change
\* the settings file (a step that starts or answers a call, or ends with an
\* exchange other than a PUT, leaves it as it was), and a PUT that
\* reports success leaves in the file exactly the settings it merged (a field
\* without a value as the empty string). So after
\* any sequence of the other requests the file holds what the last
\* successful PUT wrote.
C32_OtherStep == pending' # pending \/ (last' # last /\ last'.op # "PUT /api/settings")
C32_OnlyPutWrites ==
    [][/\ C32_OtherStep => file' = file
       /\ (last' # last /\ last'.op = "PUT /api/settings" /\ last'.success) =>
             /\ file'.kind = "object"
             /\ \A k \in SettingsFields :
                   file'.obj[k] = IF Truthy(last'.merged[k]) THEN last'.merged[k] ELSE Empty]_vars
C32_Witness ==
    /\ last.op = "v2 POST /api/notion/pages"
    /\ last.calls = 1
    /\ last.upStatus = 401
    /\ last.cred = Take(TokenBase, 3)
    /\ file.kind = "object"
    /\ file.obj.notionToken = Take(TokenBase, 3)
    /\ file.obj.googleVisionKey = Take(VisionBase, MaxKeyLen)

\* C33: saving back what was loaded is a no-op: a PUT /api/settings whose three
\* field values are exactly those of the preceding answer (of a GET, or of a
\* successful PUT, which fills the form again) leaves every stored field with
\* the value it had, a field without a value counting as empty; as the state
\* is then the same, so does every repetition.
C33_Stored(f) ==
    LET s == Spread(loadSettings(f))
    IN  [k \in SettingsFields |-> IF Truthy(s[k]) THEN s[k] ELSE Empty]
C33_Loaded ==
    \/ last.op = "GET /api/settings" /\ last.status = 200
    \/ last.op = "PUT /api/settings" /\ last.success
C33_SaveBack ==
    /\ C33_Loaded
    /\ last'.op = "PUT /api/settings"
    /\ last' # last
    /\ last'.incoming = last.view
C33_SaveBackIsNoOp ==
    [][C33_SaveBack => C33_Stored(file') = C33_Stored(file)]_vars

\* C34: every create-page call the gateway with stored credentials forwards
\* has as parent the database id in the settings file and as credential
\* "Bearer " and the token in the settings file, whatever parent and whatever
\* Authorization header the request carried.
C34_Forwarded ==
    IF Len(pending') > Len(pending) /\ pending'[Len(pending')].op = "v2 POST /api/notion/pages"
      THEN {pending'[Len(pending')]}
      ELSE {}
C34_StoredParentAndToken ==
    [][\A x \in C34_Forwarded :
          /\ file.kind = "object"
          /\ Truthy(file.obj.notionDatabaseId)
          /\ Truthy(file.obj.notionToken)
          /\ x.upDb = file.obj.notionDatabaseId
          /\ x.upAuth = Bearer \o file.obj.notionToken]_vars
C34_Witness ==
    /\ Len(pending) = 1
    /\ pending[1].op = "v2 POST /api/notion/pages"
    /\ pending[1].reqDb = Take(DbBase, 3)
    /\ pending[1].upDb = Take(DbBase, 6)
    /\ pending[1].upAuth = Bearer \o Take(TokenBase, 3)
    /\ file.obj.notionToken = Take(TokenBase, 3)

\* C35: the workflow is in ReviewReady only with a captured image and a
\* non-empty raw OCR text, and an OCR answer that carries an error payload, or
\* no text, does not lead there.
C35_NoUsableText(r) == r.hasError \/ ~Truthy(r.text)
C35_ReviewReadyHasImageAndText ==
    /\ scan.status = STATUS.OCR_COMPLETE =>
          /\ \E f \in PickedFiles : scan.imageData = f.data
          /\ scan.ocrText \in OcrTexts \cup {SAMPLE_OCR}
          /\ Len(scan.ocrText) > 0
    /\ (/\ step.kind \in {"ocr text", "ocr error"}
        /\ step.task.alive
        /\ ~step.reply.rejects
        /\ step.reply.parses
        /\ C35_NoUsableText(step.reply)) => scan.status = STATUS.ERROR
C35_Witness ==
    /\ step.kind = "ocr text"
    /\ step.task.alive
    /\ scan.status = STATUS.OCR_COMPLETE
    /\ scan.ocrText = step.reply.text
    /\ Truthy(scan.imageData)

C37_ScanEnds ==
    (scan.status \in {STATUS.UPLOADING, STATUS.PROCESSING})
        ~> (scan.status \in {STATUS.OCR_COMPLETE, STATUS.ERROR})

\* C38: switching between the Scan, Entries and Settings tabs does not change
\* the scan workflow: across every tab switch, away from the Scan tab and back
\* to it, the status and the draft (image, file name, texts, title, date, tags)
\* that the Scan tab shows, or will show on return, are the same.
C38_TabSwitchKeepsWorkflow ==
    [][step'.kind = "setActiveTab" =>
          \A f \in (DOMAIN scan) \ {"error", "progress"} : scan'[f] = scan[f]]_vars

\* C39: every append to the log coincides with the visible workflow's
\* transition into Done: whenever the log grows, the Scan tab is shown and its
\* status goes to Done in that step, and the step changes no draft other than
\* the one whose call was answered (a step of a continuation whose ScanView is
\* gone leaves the draft on screen as it is).
C39_AppendOnlyIntoDone ==
    [][/\ entries' # entries =>
             /\ Mounted'
             /\ scan.status # STATUS.COMPLETE
             /\ scan'.status = STATUS.COMPLETE
       /\ (step'.task.kind # "none" /\ ~step'.task.alive /\ step'.kind # "setActiveTab") =>
             scan' = scan]_vars

\* C40: the demonstration text is substituted only when OCR credentials are
\* absent: when all three credentials are stored on the server (v1: when the
\* client holds an OCR key), no selected image is on the demo path, neither
\* waiting for the demo timer nor given the sample text, whenever it was
\* selected with respect to the client's initial settings fetch.
C40_AllStored ==
    IF client = "v2" THEN isConfigured(loadSettings(file))
    ELSE Truthy(appSettings.googleVisionKey)
C40_NoDemoWithCredentials ==
    C40_AllStored =>
        /\ \A i \in 1..Len(tasks) : tasks[i].kind # "timer"
        /\ step.kind # "demo text"

====
